---------------------------- MODULE Spec2Model ----------------------------
(***************************************************************************)
(* The pin-extraction pipeline of the datasheet parser: the traditional    *)
(* chain extract_pins_traditional (table, diagram/OCR, plain text), the    *)
(* three strategies it calls, the language-model mode and the command line *)
(* entry point main() around them.  Python strings are tuples of one-character  *)
(* strings, so that the regular expressions, strip(), lower(), int() and   *)
(* split() of the source are computed character by character.  None is the *)
(* empty tuple << >> and a value v that may be None is the tuple <<v>>.    *)
(***************************************************************************)
EXTENDS Integers, Sequences, FiniteSets, TLC

VARIABLES
    pc,        \* position in extract_pins_traditional (or in the strategy under study)
    doc,       \* what pdfplumber sees of the PDF: [pages |-> <<[text, tables]>>]
    ocrPages,  \* what pytesseract recognises on the pages rendered at PDF_DPI
    textPages, \* what pytesseract recognises on the pages rendered at OCR_DPI
    deps,      \* [pdfplumber, ocr]: HAS_PDFPLUMBER, HAS_OCR
    tableOut,  \* return value of extract_pins_from_tables (None before the call)
    tableFault, \* how pdfplumber behaved in that call: [scan, fallback]
    tableAgain, \* return value of a second call on the same document (None before it)
    ocrOut,    \* return value of extract_pins_from_ocr
    textOut,   \* return value of extract_pins_from_text
    invoked,   \* the strategies called so far, in call order
    faults,    \* the external calls that raised so far
    result,    \* return value of extract_pins_traditional
    args,      \* the command line: [method, convert]
    llmCfg,    \* [provider, openai, anthropic]: LLM_PROVIDER, HAS_OPENAI, HAS_ANTHROPIC
    mainPc,    \* position in main()
    submitted, \* the page numbers handed to process_page_with_llm, in call order
    replies,   \* what the provider answered for each submitted page
    llmOut,    \* return value of extract_pins_with_llm
    printed,   \* the JSON object main() prints on success
    exitCode   \* the exit code of the process (None while it runs)

\* the state of main() outside extract_pins_traditional
mainVars == <<args, llmCfg, mainPc, submitted, replies, llmOut, printed, exitCode>>

vars == <<pc, doc, ocrPages, textPages, deps, tableOut, tableFault, tableAgain, ocrOut, textOut,
          invoked, faults, result, args, llmCfg, mainPc, submitted, replies,
          llmOut, printed, exitCode>>

-----------------------------------------------------------------------------
(* Characters and Python string primitives.                                 *)

None == << >>
Some(v) == <<v>>

Min(a, b) == IF a < b THEN a ELSE b
Max(a, b) == IF a > b THEN a ELSE b

LowerSeq == <<"a","b","c","d","e","f","g","h","i","j","k","l","m",
              "n","o","p","q","r","s","t","u","v","w","x","y","z">>
UpperSeq == <<"A","B","C","D","E","F","G","H","I","J","K","L","M",
              "N","O","P","Q","R","S","T","U","V","W","X","Y","Z">>
DigitSeq == <<"0","1","2","3","4","5","6","7","8","9">>

Range(s) == {s[i] : i \in DOMAIN s}
IsUpper(c) == c \in Range(UpperSeq)
IsLower(c) == c \in Range(LowerSeq)
IsDigit(c) == c \in Range(DigitSeq)
IsSpace(c) == c \in {" ", "\n", "\t"}
IsWord(c) == IsUpper(c) \/ IsLower(c) \/ IsDigit(c) \/ c = "_"
\* the class [A-Za-z0-9_/.-] of the diagram and plain-text patterns
IsToken(c) == IsWord(c) \/ c \in {"/", ".", "-"}

DigitVal(c) == (CHOOSE i \in DOMAIN DigitSeq : DigitSeq[i] = c) - 1

\* int(s) for a string of digits (leading zeros allowed)
RECURSIVE ToInt(_)
ToInt(s) == IF s = << >> THEN 0
            ELSE 10 * ToInt(SubSeq(s, 1, Len(s) - 1)) + DigitVal(s[Len(s)])

\* re.match(r"^\d+$", s) for a string without a trailing newline
AllDigits(s) == s # << >> /\ \A i \in DOMAIN s : IsDigit(s[i])

\* the character classes the regular expressions of the source use
InClass(cls, c) ==
    CASE cls = "digit" -> IsDigit(c)
      [] cls = "space" -> IsSpace(c)
      [] cls = "token" -> IsToken(c)
      [] cls = "word"  -> IsWord(c)
      [] cls = "line"  -> c # "\n"
      [] cls = "pinname" -> IsUpper(c) \/ IsDigit(c) \/ c \in {"/", "_", "-"}
      [] cls = "partrest" -> IsUpper(c) \/ IsDigit(c)
      [] cls = "upper" -> IsUpper(c)

\* first position j >= i with j past the end or text[j] outside the class:
\* where a greedy run of the class that starts at i stops
RECURSIVE RunEnd(_, _, _)
RunEnd(text, i, cls) ==
    IF i > Len(text) \/ ~InClass(cls, text[i]) THEN i ELSE RunEnd(text, i + 1, cls)

RECURSIVE Concat(_)
Concat(ss) == IF ss = << >> THEN << >> ELSE Head(ss) \o Concat(Tail(ss))

\* s.split('\n'): the pieces between newlines, empty pieces kept
RECURSIVE Split(_, _)
Split(s, from) ==
    LET j == RunEnd(s, from, "line")
    IN  IF j > Len(s) THEN <<SubSeq(s, from, Len(s))>>
        ELSE <<SubSeq(s, from, j - 1)>> \o Split(s, j + 1)

\* s.splitlines(): as split('\n') but without the empty piece after a final newline
SplitLines(s) ==
    IF s = << >> THEN << >>
    ELSE LET p == Split(s, 1)
         IN  IF p[Len(p)] = << >> THEN SubSeq(p, 1, Len(p) - 1) ELSE p

ToLowerC(c) ==
    IF IsUpper(c) THEN LowerSeq[CHOOSE i \in DOMAIN UpperSeq : UpperSeq[i] = c] ELSE c

\* s.lower()
Lower(s) == [i \in DOMAIN s |-> ToLowerC(s[i])]

\* s.strip()
RECURSIVE LStrip(_)
LStrip(s) == IF s # << >> /\ IsSpace(Head(s)) THEN LStrip(Tail(s)) ELSE s
RECURSIVE RStrip(_)
RStrip(s) ==
    IF s # << >> /\ IsSpace(s[Len(s)]) THEN RStrip(SubSeq(s, 1, Len(s) - 1)) ELSE s
Strip(s) == RStrip(LStrip(s))

\* re.sub(r'\s+', ' ', s): every run of white space becomes one blank
RECURSIVE CollapseWs(_)
CollapseWs(s) ==
    IF s = << >> THEN << >>
    ELSE IF IsSpace(Head(s))
         THEN <<" ">> \o CollapseWs(SubSeq(s, RunEnd(s, 1, "space"), Len(s)))
         ELSE <<Head(s)>> \o CollapseWs(Tail(s))

\* s[i:] starts with prefix p
StartsAt(s, i, p) == i + Len(p) - 1 <= Len(s) /\ SubSeq(s, i, i + Len(p) - 1) = p
StartsWith(s, p) == StartsAt(s, 1, p)

\* "sub in s"
Contains(s, sub) == \E i \in 1 .. Len(s) + 1 : StartsAt(s, i, sub)
ContainsAny(s, subs) == \E sub \in subs : Contains(s, sub)

\* " ".join(ss)
RECURSIVE Join(_)
Join(ss) ==
    IF ss = << >> THEN << >>
    ELSE IF Len(ss) = 1 THEN ss[1]
    ELSE ss[1] \o <<" ">> \o Join(Tail(ss))

\* sequences over S of length at most n
SeqsUpTo(S, n) == UNION {[1 .. k -> S] : k \in 0 .. n}

-----------------------------------------------------------------------------
(* extractors/ocr_extractor.py                                              *)

\* One attempt of pattern_A = ([A-Za-z0-9_/.-]+)\s+(\d{1,3}) at position i.
\* The three classes are pairwise disjoint except that digits are token
\* characters, so backtracking never finds a match the greedy runs miss: the
\* token must run to its end j, the white space to its end k, and at k up to
\* three digits are taken.
MatchA(text, i) ==
    LET j == RunEnd(text, i, "token")
        k == RunEnd(text, j, "space")
        d == RunEnd(text, k, "digit")
        e == Min(d, k + 3)
    IN  IF j > i /\ k > j /\ d > k
        THEN [ok |-> TRUE, end |-> e,
              pair |-> <<ToInt(SubSeq(text, k, e - 1)), SubSeq(text, i, j - 1)>>]
        ELSE [ok |-> FALSE, end |-> i, pair |-> <<0, << >> >>]

\* One attempt of pattern_B = (\d{1,3})\s+([A-Za-z0-9_/.-]+) at position i:
\* a digit run of more than three digits cannot be followed by white space
\* after its first three, so the attempt fails there.
MatchB(text, i) ==
    LET d == RunEnd(text, i, "digit")
        k == RunEnd(text, d, "space")
        j == RunEnd(text, k, "token")
    IN  IF d > i /\ d - i <= 3 /\ k > d /\ j > k
        THEN [ok |-> TRUE, end |-> j,
              pair |-> <<ToInt(SubSeq(text, i, d - 1)), SubSeq(text, k, j - 1)>>]
        ELSE [ok |-> FALSE, end |-> i, pair |-> <<0, << >> >>]

\* re.findall(pattern_A, text): leftmost non-overlapping matches from position i
RECURSIVE FindAllA(_, _)
FindAllA(text, i) ==
    IF i > Len(text) THEN << >>
    ELSE LET m == MatchA(text, i)
         IN  IF m.ok THEN <<m.pair>> \o FindAllA(text, m.end)
             ELSE FindAllA(text, i + 1)

\* re.findall(pattern_B, text)
RECURSIVE FindAllB(_, _)
FindAllB(text, i) ==
    IF i > Len(text) THEN << >>
    ELSE LET m == MatchB(text, i)
         IN  IF m.ok THEN <<m.pair>> \o FindAllB(text, m.end)
             ELSE FindAllB(text, i + 1)

\* pairs: the pattern_A matches followed by the pattern_B matches
OcrPairs(text) == FindAllA(text, 1) \o FindAllB(text, 1)

\* (mutant) the dict keeps the first name written for a number
RECURSIVE Cleaned_FirstWins(_)
Cleaned_FirstWins(pairs) ==
    IF pairs = << >> THEN << >>
    ELSE LET rest == Cleaned_FirstWins(SubSeq(pairs, 1, Len(pairs) - 1))
             last == pairs[Len(pairs)]
         IN  IF last[1] \in DOMAIN rest THEN rest
             ELSE [p \in (DOMAIN rest) \cup {last[1]} |->
                      IF p = last[1] THEN last[2] ELSE rest[p]]

\* the dict `cleaned` after "for pin, name in pairs: cleaned[pin] = name"
RECURSIVE Cleaned(_)
Cleaned(pairs) ==
    IF pairs = << >> THEN << >>
    ELSE LET rest == Cleaned(SubSeq(pairs, 1, Len(pairs) - 1))
             last == pairs[Len(pairs)]
         IN  [p \in (DOMAIN rest) \cup {last[1]} |->
                 IF p = last[1] THEN last[2] ELSE rest[p]]

\* sorted(keys): the keys in ascending order
RECURSIVE SortedKeys(_)
SortedKeys(keys) ==
    IF keys = {} THEN << >>
    ELSE LET m == CHOOSE x \in keys : \A y \in keys : x <= y
         IN  <<m>> \o SortedKeys(keys \ {m})

\* lines 46-72: the names found in the recognised text, None when no pair matches
OcrNames(text) ==
    LET pairs == OcrPairs(text)
        cleaned == Cleaned(pairs)
        keys == SortedKeys(DOMAIN cleaned)
    IN  IF pairs = << >> THEN None
        ELSE Some([i \in DOMAIN keys |-> cleaned[keys[i]]])

\* An external call of a strategy either returns or raises; the outcome of a
\* strategy is its return value, or the exception that leaves it.
Returned(v) == [raised |-> FALSE, value |-> v]
Raised == [raised |-> TRUE, value |-> None]

\* The whole function.  hasOcr is HAS_OCR; pages are the texts pytesseract
\* recognises on the images of pages first_page=1 .. last_page=3; fault is the
\* external call that raises: "render" (convert_from_path, inside the try),
\* "recognize" (image_to_string, outside any try) or "none".
OcrLastPage == 3
extract_pins_from_ocr(pages, hasOcr, fault) ==
    IF ~hasOcr \/ fault = "render" THEN Returned(None)
    ELSE IF fault = "recognize" THEN Raised
    ELSE Returned(OcrNames(Concat(SubSeq(pages, 1, Min(OcrLastPage, Len(pages))))))

-----------------------------------------------------------------------------
(* extractors/text_extractor.py                                             *)

\* re.match(r"^\s*(\d{1,3})\s+([A-Za-z0-9_/.-]+)\s*$", line) on a line without
\* a newline: leading space, one to three digits, space, a token, trailing space
MatchLine(line) ==
    LET a == RunEnd(line, 1, "space")
        d == RunEnd(line, a, "digit")
        k == RunEnd(line, d, "space")
        j == RunEnd(line, k, "token")
        z == RunEnd(line, j, "space")
    IN  IF d > a /\ d - a <= 3 /\ k > d /\ j > k /\ z > Len(line)
        THEN [ok |-> TRUE,
              pair |-> <<ToInt(SubSeq(line, a, d - 1)), SubSeq(line, k, j - 1)>>]
        ELSE [ok |-> FALSE, pair |-> <<0, << >> >>]

\* results: one (pin, name) per matching line, in line order
RECURSIVE LineResults(_)
LineResults(lines) ==
    IF lines = << >> THEN << >>
    ELSE LET m == MatchLine(Head(lines))
         IN  (IF m.ok THEN <<m.pair>> ELSE << >>) \o LineResults(Tail(lines))

\* results.sort(key=lambda x: x[0]): a stable sort by pin number
RECURSIVE StableSortByPin(_)
StableSortByPin(rs) ==
    IF rs = << >> THEN << >>
    ELSE LET i == CHOOSE i \in DOMAIN rs :
                     /\ \A j \in DOMAIN rs : rs[i][1] <= rs[j][1]
                     /\ \A j \in 1 .. i - 1 : rs[j][1] # rs[i][1]
         IN  <<rs[i]>> \o StableSortByPin(SubSeq(rs, 1, i - 1) \o SubSeq(rs, i + 1, Len(rs)))

TextNames(text) ==
    LET results == StableSortByPin(LineResults(SplitLines(text)))
    IN  IF results = << >> THEN None
        ELSE Some([i \in DOMAIN results |-> results[i][2]])

\* The whole function, with the faults of extract_pins_from_ocr: the pages are
\* 1 .. 5, rendered at OCR_DPI
TextLastPage == 5
extract_pins_from_text(pages, hasOcr, fault) ==
    IF ~hasOcr \/ fault = "render" THEN Returned(None)
    ELSE IF fault = "recognize" THEN Raised
    ELSE Returned(TextNames(Concat(SubSeq(pages, 1, Min(TextLastPage, Len(pages))))))

-----------------------------------------------------------------------------
(* config.py                                                                *)
MIN_PIN_NAME_LENGTH == 1
MAX_PIN_NAME_LENGTH == 30

-----------------------------------------------------------------------------
(* extractors/table_extractor.py: header row and column roles.              *)
(* A table is a tuple of rows, a row a tuple of cells, a cell a string; a   *)
(* None cell is the empty string, which the source never tells apart        *)
(* (every use is "if cell", "cell is not None and str(cell).strip()").      *)
(* Column indexes are 1-based here (Python's i is i + 1) and 0 is None.     *)

\* lines 163-165: row 0 lower-cased, stripped, white space collapsed
HeadersRow0(table) == [i \in DOMAIN table[1] |-> CollapseWs(Strip(Lower(table[1][i])))]

\* line 172: row 1 lower-cased and stripped (white space is not collapsed here)
HeadersRow1(table) == [i \in DOMAIN table[2] |-> Strip(Lower(table[2][i]))]

\* line 169: headers.count("") > len(headers) / 2 or no header contains "name"
Row0IsWeak(headers) ==
    \/ 2 * Cardinality({i \in DOMAIN headers : headers[i] = << >>}) > Len(headers)
    \/ ~ \E i \in DOMAIN headers : Contains(headers[i], <<"n","a","m","e">>)

\* lines 169-176: whether row 1 replaces row 0 as the header row
PromoteRow1(table) ==
    /\ Row0IsWeak(HeadersRow0(table))
    /\ Len(table) > 2
    /\ ContainsAny(Join(HeadersRow1(table)), {<<"n","a","m","e">>, <<"t","y","p","e">>, <<"d","e","s","c","r","i","p","t","i","o","n">>})

Headers(table) == IF PromoteRow1(table) THEN HeadersRow1(table) ELSE HeadersRow0(table)
DataStartIdx(table) == IF PromoteRow1(table) THEN 3 ELSE 2

\* re.search(r'\bname\b', h): "name" with no word character on either side
HasWordName(h) ==
    \E i \in 1 .. Len(h) :
        /\ StartsAt(h, i, <<"n","a","m","e">>)
        /\ (i = 1 \/ ~IsWord(h[i - 1]))
        /\ (i + 4 > Len(h) \/ ~IsWord(h[i + 4]))

\* re.search(r'pin\s*#?|pin\s*no|pin\s*num', h) and "description" not in h:
\* the first alternative matches wherever "pin" occurs
IsPinHeader(h) == Contains(h, <<"p","i","n">>) /\ ~Contains(h, <<"d","e","s","c","r","i","p","t","i","o","n">>)

\* line 196
IsNameHeader(h) ==
    /\ HasWordName(h) \/ ContainsAny(h, {<<"s","i","g","n","a","l">>, <<"f","u","n","c","t","i","o","n">>, <<"d","e","v","i","c","e">>})
    /\ ~ContainsAny(h, {<<"d","e","s","c","r","i","p","t","i","o","n">>, <<"p","a","c","k","a","g","e">>, <<"o","r","d","e","r","a","b","l","e">>, <<"r","e","e","l">>, <<"s","p","q">>})

\* re.match(r'^i\s*/\s*o\s+type', h)
IsIoTypeHeader(h) ==
    LET a == RunEnd(h, 2, "space")
        b == RunEnd(h, a + 1, "space")
        c == RunEnd(h, b + 1, "space")
    IN  /\ StartsWith(h, <<"i">>)
        /\ a <= Len(h) /\ h[a] = "/"
        /\ b <= Len(h) /\ h[b] = "o"
        /\ c > b + 1
        /\ StartsAt(h, c, <<"t","y","p","e">>)

\* lines 212-214
IsTypeHeader(h) ==
    /\ h = <<"t","y","p","e">> \/ Contains(h, <<"a","n","a","l","o","g">>) \/ Contains(h, <<"d","i","g","i","t","a","l">>)
    /\ ~Contains(h, <<"d","e","s","c","r","i","p","t","i","o","n">>)

\* re.search(r'\bi\s*/\s*o\b', h)
HasIoToken(h) ==
    \E i \in 1 .. Len(h) :
        LET a == RunEnd(h, i + 1, "space")
            b == RunEnd(h, a + 1, "space")
        IN  /\ h[i] = "i"
            /\ (i = 1 \/ ~IsWord(h[i - 1]))
            /\ a <= Len(h) /\ h[a] = "/"
            /\ b <= Len(h) /\ h[b] = "o"
            /\ (b = Len(h) \/ ~IsWord(h[b + 1]))

\* re.search(r'input.*output|output.*input|direction', h): one string before the other
ContainsInOrder(h, x, y) ==
    \E i \in 1 .. Len(h) : \E j \in 1 .. Len(h) :
        /\ StartsAt(h, i, x) /\ j >= i + Len(x) /\ StartsAt(h, j, y)
        /\ \A k \in i + Len(x) .. j - 1 : h[k] # "\n"

\* lines 226-227
IsDirectionHeader(h) ==
    /\ \/ ContainsInOrder(h, <<"i","n","p","u","t">>, <<"o","u","t","p","u","t">>)
       \/ ContainsInOrder(h, <<"o","u","t","p","u","t">>, <<"i","n","p","u","t">>)
       \/ Contains(h, <<"d","i","r","e","c","t","i","o","n">>)
    /\ ~Contains(h, <<"t","y","p","e">>)
    /\ HasIoToken(h)

IsDescriptionHeader(h) == Contains(h, <<"d","e","s","c","r","i","p","t","i","o","n">>)

NoRoles == [pin |-> 0, name |-> 0, type |-> 0, direction |-> 0, description |-> 0]

\* (mutant) an "i/o type" header fills the type role only
ClassifyHeader_IoTypeOnly(r, i, h) ==
    LET r1 == IF IsPinHeader(h) THEN [r EXCEPT !.pin = i] ELSE r
        r2 == IF IsNameHeader(h) /\ r1.name = 0 THEN [r1 EXCEPT !.name = i] ELSE r1
    IN  IF IsIoTypeHeader(h)
        THEN [r2 EXCEPT !.type = IF r2.type = 0 THEN i ELSE @]
        ELSE LET r3 == IF IsTypeHeader(h) /\ r2.type = 0
                       THEN [r2 EXCEPT !.type = i,
                                       !.direction =
                                           IF /\ Contains(h, <<"i","n","p","u","t">>) \/ Contains(h, <<"o","u","t","p","u","t">>)
                                              /\ r2.direction = 0
                                           THEN i ELSE @]
                       ELSE r2
                 r4 == IF IsDirectionHeader(h) /\ r3.direction = 0
                       THEN [r3 EXCEPT !.direction = i] ELSE r3
             IN  IF IsDescriptionHeader(h) /\ r4.description = 0
                 THEN [r4 EXCEPT !.description = i] ELSE r4

\* the body of "for i, h in enumerate(headers)" (lines 188-234) for one header
ClassifyHeader(r, i, h) ==
    LET r1 == IF IsPinHeader(h) THEN [r EXCEPT !.pin = i] ELSE r
        r2 == IF IsNameHeader(h) /\ r1.name = 0 THEN [r1 EXCEPT !.name = i] ELSE r1
    IN  IF IsIoTypeHeader(h)
        THEN \* sets both roles and continues with the next header
             [r2 EXCEPT !.type = IF r2.type = 0 THEN i ELSE @,
                        !.direction = IF r2.direction = 0 THEN i ELSE @]
        ELSE LET r3 == IF IsTypeHeader(h) /\ r2.type = 0
                       THEN [r2 EXCEPT !.type = i,
                                       !.direction =
                                           IF /\ Contains(h, <<"i","n","p","u","t">>) \/ Contains(h, <<"o","u","t","p","u","t">>)
                                              /\ r2.direction = 0
                                           THEN i ELSE @]
                       ELSE r2
                 r4 == IF IsDirectionHeader(h) /\ r3.direction = 0
                       THEN [r3 EXCEPT !.direction = i] ELSE r3
             IN  IF IsDescriptionHeader(h) /\ r4.description = 0
                 THEN [r4 EXCEPT !.description = i] ELSE r4

RECURSIVE ClassifyFrom(_, _, _)
ClassifyFrom(r, headers, i) ==
    IF i > Len(headers) THEN r
    ELSE ClassifyFrom(ClassifyHeader(r, i, headers[i]), headers, i + 1)

\* lines 244-248: a data row among the first three has only digits in column col
HasNumbers(table, col) ==
    \E k \in DataStartIdx(table) .. Min(Len(table), DataStartIdx(table) + 2) :
        Len(table[k]) >= col /\ AllDigits(Strip(table[k][col]))

\* lines 238-253: NAME in the first column and no pin column: the first of the
\* next three columns that holds numbers is the pin column
ProbePinColumn(table, headers) ==
    LET cols == {c \in 2 .. Min(4, Len(headers)) : HasNumbers(table, c)}
    IN  IF cols = {} THEN 0 ELSE CHOOSE c \in cols : \A x \in cols : c <= x

ColumnRoles(table) ==
    LET headers == Headers(table)
        r == ClassifyFrom(NoRoles, headers, 1)
    IN  IF r.name = 1 /\ r.pin = 0
        THEN [r EXCEPT !.pin = ProbePinColumn(table, headers)]
        ELSE r

\* line 266
IsPackagingTable(table) ==
    ContainsAny(Join(Headers(table)),
                {<<"r","e","e","l"," ","d","i","a","m","e","t","e","r">>, <<"l","e","n","g","t","h","(","m","m",")">>, <<"w","i","d","t","h","(","m","m",")">>, <<"h","e","i","g","h","t","(","m","m",")">>})

\* lines 158, 255, 266: the table, whose column roles are r, is scanned for pins
IsPinTable(table, r) ==
    /\ Len(table) >= 2
    /\ r.pin # 0
    /\ r.name # 0
    /\ ~IsPackagingTable(table)

-----------------------------------------------------------------------------
(* extractors/table_extractor.py: one data row (lines 272-390).             *)

\* a cell of the row as the source reads it: str(row[i]).strip() if row[i] else ""
Cell(row, i) == Strip(row[i])

\* lines 284-287: the pin-number cell, or the next cell when it is blank
PinNumText(row, r) ==
    IF /\ Strip(row[r.pin]) = << >>
       /\ r.pin + 1 <= Len(row)
       /\ row[r.pin + 1] # << >>
    THEN Strip(row[r.pin + 1])
    ELSE Strip(row[r.pin])

\* line 304: name.isdigit() and len(name) <= 2
IsShortNumeral(name) == AllDigits(name) /\ Len(name) <= 2

\* line 308: re.match(r'^[A-Z]{3}\d{4}', name)
LooksLikePartNumber(name) ==
    /\ Len(name) >= 7
    /\ \A i \in 1 .. 3 : IsUpper(name[i])
    /\ \A i \in 4 .. 7 : IsDigit(name[i])

\* lines 274-309: the row passes every filter
RowAccepted(row, r) ==
    LET maxIdx == Max(Max(r.pin, r.name), Max(Max(r.type, r.direction), r.description))
        name == Cell(row, r.name)
    IN  /\ Cardinality({i \in DOMAIN row : Strip(row[i]) # << >>}) >= 2
        /\ Len(row) >= maxIdx
        /\ AllDigits(PinNumText(row, r))
        /\ ToInt(PinNumText(row, r)) # 0
        /\ Len(name) >= MIN_PIN_NAME_LENGTH /\ Len(name) <= MAX_PIN_NAME_LENGTH
        /\ ~IsShortNumeral(name)
        /\ ~LooksLikePartNumber(name)

\* lines 320-329: the type named by a (lower-cased) type cell, None when none is
TypeFromText(t) ==
    IF Contains(t, <<"a","n","a","l","o","g">>) /\ Contains(t, <<"d","i","g","i","t","a","l">>) THEN Some("Analog/Digital")
    ELSE IF Contains(t, <<"a","n","a","l","o","g">>) THEN Some("Analog")
    ELSE IF Contains(t, <<"d","i","g","i","t","a","l">>) THEN Some("Digital")
    ELSE IF Contains(t, <<"p","o","w","e","r">>) \/ Contains(t, <<"s","u","p","p","l","y">>) THEN Some("Power")
    ELSE IF Contains(t, <<"g","r","o","u","n","d">>) \/ t = <<"g","n","d">> THEN Some("Ground")
    ELSE None

\* lines 312-335
PinType(row, r) ==
    IF r.type # 0 /\ Len(row) >= r.type /\ row[r.type] # << >>
    THEN LET t == TypeFromText(Lower(CollapseWs(Strip(row[r.type]))))
         IN  IF /\ t = None
                /\ r.type + 1 <= Len(row)
                /\ row[r.type + 1] # << >>
                /\ ContainsAny(Lower(Strip(row[r.type + 1])), {<<"s","u","p","p","l","y">>, <<"p","o","w","e","r">>})
             THEN Some("Power")
             ELSE t
    ELSE None

\* lines 345-350: the direction named by a (lower-cased) direction cell
DirectionFromDirText(t) ==
    IF ContainsAny(t, {<<"i","/","o">>, <<"i"," ","/"," ","o">>, <<"b","i","d","i","r","e","c","t","i","o","n","a","l">>, <<"i","n","p","u","t","/","o","u","t","p","u","t">>, <<"i","n","o","u","t">>})
    THEN Some("I/O")
    ELSE IF Contains(t, <<"o","u","t","p","u","t">>) THEN Some("Output")
    ELSE IF Contains(t, <<"i","n","p","u","t">>) THEN Some("Input")
    ELSE None

\* lines 361-366: the direction named by a (lower-cased) type cell
DirectionFromTypeText(t) ==
    IF ContainsAny(t, {<<"i","/","o">>, <<"i"," ","/"," ","o">>, <<"i","n","p","u","t","/","o","u","t","p","u","t">>, <<"i","n","p","u","t"," ","/"," ","o","u","t","p","u","t">>})
    THEN Some("I/O")
    ELSE IF Contains(t, <<"o","u","t","p","u","t">>) THEN Some("Output")
    ELSE IF Contains(t, <<"i","n","p","u","t">>) THEN Some("Input")
    ELSE None

\* lines 337-366
PinDirection(row, r) ==
    LET d == IF r.direction # 0 /\ Len(row) >= r.direction /\ row[r.direction] # << >>
             THEN DirectionFromDirText(Lower(CollapseWs(Strip(row[r.direction]))))
             ELSE None
    IN  IF d = None /\ r.type # 0 /\ Len(row) >= r.type /\ row[r.type] # << >>
        THEN DirectionFromTypeText(Lower(CollapseWs(Strip(row[r.type]))))
        ELSE d

\* lines 368-372
PinDescription(row, r) ==
    IF /\ r.description # 0 /\ Len(row) >= r.description /\ row[r.description] # << >>
       /\ Len(Strip(row[r.description])) > 3
    THEN Some(Strip(row[r.description]))
    ELSE None

\* (mutant) the dict is passed on as it is, empty or not
Details_KeepsEmpty(type, direction, description) ==
    LET found == [type |-> type, direction |-> direction, description |-> description]
    IN  Some([k \in {a \in DOMAIN found : found[a] # None} |-> found[k][1]])

\* lines 374-381 and 387: the dict of the attributes found, None when it is empty
Details(type, direction, description) ==
    LET found == [type |-> type, direction |-> direction, description |-> description]
        keys == {k \in DOMAIN found : found[k] # None}
    IN  IF keys = {} THEN None ELSE Some([k \in keys |-> found[k][1]])

\* schema.Pin
Pin(number, name, details) == [number |-> number, name |-> name, details |-> details]

\* lines 384-390: the candidate (pin number, Pin) of an accepted row
RowCandidate(row, r) ==
    <<ToInt(PinNumText(row, r)),
      Pin(ToInt(PinNumText(row, r)), Cell(row, r.name),
          Details(PinType(row, r), PinDirection(row, r), PinDescription(row, r)))>>

RECURSIVE RowCandidates(_, _, _)
RowCandidates(table, r, k) ==
    IF k > Len(table) THEN << >>
    ELSE (IF RowAccepted(table[k], r) THEN <<RowCandidate(table[k], r)>> ELSE << >>)
         \o RowCandidates(table, r, k + 1)

\* lines 157-390 for one table
TableRowCandidates(table, r) ==
    IF IsPinTable(table, r) THEN RowCandidates(table, r, DataStartIdx(table)) ELSE << >>
TableCandidates(table) ==
    IF table = << >> THEN << >> ELSE TableRowCandidates(table, ColumnRoles(table))

RECURSIVE TablesCandidates(_)
TablesCandidates(tables) ==
    IF tables = << >> THEN << >>
    ELSE TableCandidates(Head(tables)) \o TablesCandidates(Tail(tables))

\* line 150: pages_to_check = min(50, len(pdf.pages))
PagesToCheck == 50
PagesChecked(pages) == SubSeq(pages, 1, Min(PagesToCheck, Len(pages)))

\* lines 151-390: the candidates of the pages, in (page, table, row) order
RECURSIVE ScanPages(_)
ScanPages(pages) ==
    IF pages = << >> THEN << >>
    ELSE TablesCandidates(Head(pages).tables) \o ScanPages(Tail(pages))

-----------------------------------------------------------------------------
(* extractors/table_extractor.py: the text-line fallback (lines 403-465).   *)

MaxTextPin == 256

\* re.match(r'^(\d+)\s+([A-Z][A-Z0-9/_\-]{1,20})\s+(.+)', line.strip()):
\* digits, space, an upper-case letter and 1 to 20 name characters, space and
\* a non-empty rest.  The greedy runs decide the match: a name run of more
\* than 21 characters, or one not followed by white space, has no match.
MatchPinLine(line) ==
    LET s == Strip(line)
        d == RunEnd(s, 1, "digit")
        k == RunEnd(s, d, "space")
        n == RunEnd(s, k + 1, "pinname")
        w == RunEnd(s, n, "space")
    IN  IF /\ d > 1 /\ k > d /\ k <= Len(s) /\ IsUpper(s[k])
           /\ n - k >= 2 /\ n - k <= 21
           /\ w > n /\ w <= Len(s)
        THEN [ok |-> TRUE, pin |-> ToInt(SubSeq(s, 1, d - 1)),
              name |-> SubSeq(s, k, n - 1), desc |-> Strip(SubSeq(s, w, Len(s)))]
        ELSE [ok |-> FALSE, pin |-> 0, name |-> << >>, desc |-> << >>]

\* lines 438-444: false_positive_patterns
IsFalsePositiveName(name) ==
    \/ name = <<"D","R">>
    \/ AllDigits(name)
    \/ Len(name) = 2 /\ IsUpper(name[1]) /\ name[2] = "S"
    \/ Len(name) = 2 /\ name[1] = "T" /\ IsUpper(name[2])

\* line 451: re.match(r'^[=<>]|^\d+$', desc)
IsFormula(desc) == (desc # << >> /\ desc[1] \in {"=", "<", ">"}) \/ AllDigits(desc)

\* (mutant) without the upper limit on the pin number
LineAccepted_AnyNumber(line, candidates) ==
    LET m == MatchPinLine(line)
    IN  /\ m.ok
        /\ m.pin # 0
        /\ ~ \E i \in DOMAIN candidates : candidates[i][1] = m.pin
        /\ IsUpper(m.name[1])
        /\ ~IsFalsePositiveName(m.name)
        /\ Len(m.name) >= MIN_PIN_NAME_LENGTH /\ Len(m.name) <= MAX_PIN_NAME_LENGTH
        /\ ~IsFormula(m.desc)

\* lines 414-460: the line adds a candidate to the candidates found so far
LineAccepted(line, candidates) ==
    LET m == MatchPinLine(line)
    IN  /\ m.ok
        /\ m.pin # 0
        /\ m.pin <= MaxTextPin
        /\ ~ \E i \in DOMAIN candidates : candidates[i][1] = m.pin
        /\ IsUpper(m.name[1])
        /\ ~IsFalsePositiveName(m.name)
        /\ Len(m.name) >= MIN_PIN_NAME_LENGTH /\ Len(m.name) <= MAX_PIN_NAME_LENGTH
        /\ ~IsFormula(m.desc)

LineCandidate(line) ==
    LET m == MatchPinLine(line)
    IN  <<m.pin, Pin(m.pin, m.name,
                     IF m.desc # << >> THEN Some([description |-> m.desc]) ELSE None)>>

RECURSIVE FallbackLines(_, _)
FallbackLines(lines, candidates) ==
    IF lines = << >> THEN candidates
    ELSE FallbackLines(Tail(lines),
                       IF LineAccepted(Head(lines), candidates)
                       THEN Append(candidates, LineCandidate(Head(lines)))
                       ELSE candidates)

\* lines 406-462: pages k .. of the fallback pass; extract_text raises on page
\* raiseAt (0: on none), which ends the pass with the candidates found so far
RECURSIVE FallbackPages(_, _, _, _)
FallbackPages(pages, k, raiseAt, candidates) ==
    IF k > Len(pages) \/ k = raiseAt THEN candidates
    ELSE FallbackPages(pages, k + 1, raiseAt,
                       IF pages[k].text = << >> THEN candidates
                       ELSE FallbackLines(Split(pages[k].text, 1), candidates))

-----------------------------------------------------------------------------
(* extractors/table_extractor.py: extract_metadata_from_text (lines 16-113) *)

\* the bullet character U+2022, one character of the page text
Bullet == "bullet"

\* re.search(r'\b([A-Z]{2,}\d{3,}[A-Z0-9]*)\b', line) matches at position i:
\* a word boundary, two or more capitals, three or more digits, capitals and
\* digits up to a word boundary.  Each greedy run must end where its class
\* ends, so a shorter run never matches where the longest does not.
PartNumberAt(line, i) ==
    LET u == RunEnd(line, i, "upper")
        d == RunEnd(line, u, "digit")
        e == RunEnd(line, d, "partrest")
    IN  IF /\ (i = 1 \/ ~IsWord(line[i - 1]))
           /\ u - i >= 2 /\ d - u >= 3
           /\ (e > Len(line) \/ ~IsWord(line[e]))
        THEN Some(SubSeq(line, i, e - 1))
        ELSE None

PartNumberIn(line) ==
    LET hits == {i \in DOMAIN line : PartNumberAt(line, i) # None}
    IN  IF hits = {} THEN None
        ELSE PartNumberAt(line, CHOOSE i \in hits : \A j \in hits : i <= j)

\* lines 37-41: the first match in the first ten lines
RECURSIVE FirstPartNumber(_)
FirstPartNumber(lines) ==
    IF lines = << >> THEN None
    ELSE IF PartNumberIn(Head(lines)) # None THEN PartNumberIn(Head(lines))
    ELSE FirstPartNumber(Tail(lines))

\* str.isupper(): a cased character exists and none is lower case
IsUpperStr(s) == (\E i \in DOMAIN s : IsUpper(s[i])) /\ ~ \E i \in DOMAIN s : IsLower(s[i])

TitleMinLen == 20
TitleMaxLen == 150
TitleWords == {<<"c","o","n","v","e","r","t","e","r">>, <<"r","e","g","u","l","a","t","o","r">>, <<"a","m","p","l","i","f","i","e","r">>, <<"c","o","n","t","r","o","l","l","e","r">>, <<"i","n","t","e","r","f","a","c","e">>}

\* lines 44-48: the first of the first fifteen lines that looks like a title
RECURSIVE FirstTitle(_)
FirstTitle(lines) ==
    IF lines = << >> THEN None
    ELSE LET line == Head(lines)
         IN  IF /\ Len(line) > TitleMinLen /\ Len(line) < TitleMaxLen
                /\ ~IsUpperStr(line)
                /\ ContainsAny(Lower(line), TitleWords)
             THEN Some(Strip(line))
             ELSE FirstTitle(Tail(lines))

SectionHeaderMaxLen == 30
BulletMinLen == 5
BulletMaxLen == 200

\* lines 66-69 and 87-90: the text of a bullet line, None when the line is no
\* bullet or its text is too short or too long
BulletText(line) ==
    LET s == Strip(line)
        t == Strip(IF line # << >> /\ line[1] \in {Bullet, "-", "*"}
                   THEN SubSeq(line, RunEnd(line, 2, "space"), Len(line))
                   ELSE line)
    IN  IF /\ s # << >> /\ s[1] \in {Bullet, "-"}
           /\ Len(t) > BulletMinLen /\ Len(t) < BulletMaxLen
        THEN Some(t) ELSE None

\* lines 51-69 and 72-90: the bullets of the section whose header line
\* contains `key`, up to a line that contains one of `stops`
RECURSIVE SectionBullets(_, _, _, _)
SectionBullets(lines, key, stops, inSection) ==
    IF lines = << >> THEN << >>
    ELSE LET ll == Strip(Lower(Head(lines)))
         IN  IF Contains(ll, key) /\ Len(ll) < SectionHeaderMaxLen
             THEN SectionBullets(Tail(lines), key, stops, TRUE)
             ELSE IF inSection /\ ContainsAny(ll, stops)
             THEN SectionBullets(Tail(lines), key, stops, FALSE)
             ELSE (IF inSection /\ BulletText(Head(lines)) # None
                   THEN BulletText(Head(lines)) ELSE << >>)
                  \o SectionBullets(Tail(lines), key, stops, inSection)

\* lines 93-108: the prose lines after a "description" header, up to a section line
RECURSIVE DescriptionLines(_, _)
DescriptionLines(lines, inSection) ==
    IF lines = << >> THEN << >>
    ELSE LET ll == Strip(Lower(Head(lines)))
             s == Strip(Head(lines))
         IN  IF ll = <<"d","e","s","c","r","i","p","t","i","o","n">> \/ (Len(ll) < SectionHeaderMaxLen /\ Contains(ll, <<"d","e","s","c","r","i","p","t","i","o","n">>))
             THEN DescriptionLines(Tail(lines), TRUE)
             ELSE IF inSection /\ ContainsAny(ll, {<<"p","i","n"," ","c","o","n","f","i","g">>, <<"p","i","n"," ","d","e","s","c","r","i","p","t","i","o","n">>,
                                  <<"s","p","e","c","i","f","i","c","a","t","i","o","n">>, <<"f","e","a","t","u","r","e","s">>, <<"a","p","p","l","i","c","a","t","i","o","n">>})
             THEN << >>
             ELSE (IF inSection /\ s # << >> /\ s[1] # Bullet THEN <<s>> ELSE << >>)
                  \o DescriptionLines(Tail(lines), inSection)

PartNumberLines == 10
TitleLines == 15
DescriptionMaxLines == 10

extract_metadata_from_text(text) ==
    LET lines == Split(text, 1)
        desc == DescriptionLines(lines, FALSE)
    IN  [features |-> SectionBullets(lines, <<"f","e","a","t","u","r","e","s">>,
                         {<<"d","e","s","c","r","i","p","t","i","o","n">>, <<"a","p","p","l","i","c","a","t","i","o","n">>, <<"s","p","e","c","i","f","i","c","a","t","i","o","n">>, <<"p","i","n"," ","c","o","n","f","i","g">>}, FALSE),
         applications |-> SectionBullets(lines, <<"a","p","p","l","i","c","a","t","i","o","n">>,
                         {<<"p","i","n"," ","c","o","n","f","i","g">>, <<"s","p","e","c","i","f","i","c","a","t","i","o","n">>, <<"f","e","a","t","u","r","e","s">>}, FALSE),
         description |-> IF desc # << >>
                         THEN Some(Join(SubSeq(desc, 1, Min(DescriptionMaxLines, Len(desc)))))
                         ELSE None,
         title |-> FirstTitle(SubSeq(lines, 1, Min(TitleLines, Len(lines)))),
         part_number |-> FirstPartNumber(SubSeq(lines, 1, Min(PartNumberLines, Len(lines))))]

-----------------------------------------------------------------------------
(* extractors/table_extractor.py: extract_pins_from_tables (lines 116-494)  *)

\* (mutant) the dict keeps the last Pin of each number
Seen_LastWins(candidates) == Cleaned(candidates)

\* lines 480-483: the dict `seen`, the first Pin of each number
RECURSIVE Seen(_)
Seen(candidates) ==
    IF candidates = << >> THEN << >>
    ELSE LET rest == Seen(SubSeq(candidates, 1, Len(candidates) - 1))
             last == candidates[Len(candidates)]
         IN  IF last[1] \in DOMAIN rest THEN rest
             ELSE [p \in (DOMAIN rest) \cup {last[1]} |->
                      IF p = last[1] THEN last[2] ELSE rest[p]]

\* (mutant) every candidate is returned, sorted by number, duplicates included
MergedPins_KeepsAll(candidates) ==
    LET sorted == StableSortByPin(candidates)
    IN  [i \in DOMAIN sorted |-> sorted[i][2]]

\* (mutant) the first Pin of each number, in the order the numbers were met
RECURSIVE FirstSeenOrder(_, _)
FirstSeenOrder(candidates, met) ==
    IF candidates = << >> THEN << >>
    ELSE IF Head(candidates)[1] \in met THEN FirstSeenOrder(Tail(candidates), met)
    ELSE <<Head(candidates)[2]>>
         \o FirstSeenOrder(Tail(candidates), met \cup {Head(candidates)[1]})
MergedPins_EncounterOrder(candidates) == FirstSeenOrder(candidates, {})

\* line 486: pins = [seen[p] for p in sorted(seen.keys())]
MergedPins(candidates) ==
    LET seen == Seen(candidates)
        keys == SortedKeys(DOMAIN seen)
    IN  [i \in DOMAIN keys |-> seen[keys[i]]]

\* lines 141-144: the metadata of the first page, None without first-page text
FirstPageMetadata(pages) ==
    IF pages # << >> /\ pages[1].text # << >>
    THEN Some(extract_metadata_from_text(pages[1].text))
    ELSE None

\* (mutant) an error in the fallback pass discards every candidate
Candidates_DropsOnError(pages, fallbackRaiseAt) ==
    IF fallbackRaiseAt # 0 THEN << >>
    ELSE FallbackPages(PagesChecked(pages), 1, 0, ScanPages(PagesChecked(pages)))

\* the candidates of both passes: the table rows, then the fallback lines
Candidates(pages, fallbackRaiseAt) ==
    FallbackPages(PagesChecked(pages), 1, fallbackRaiseAt, ScanPages(PagesChecked(pages)))

\* (mutant) without the early return for an empty candidate list
TableResult_KeepsEmpty(candidates, metadata) ==
    Some([pins |-> MergedPins(candidates), metadata |-> metadata])

\* lines 470-494: the value returned for the candidates and the metadata
TableResult(candidates, metadata) ==
    IF candidates = << >>
    THEN IF metadata # None
         THEN Some([pins |-> << >>, metadata |-> metadata])
         ELSE None
    ELSE Some([pins |-> MergedPins(candidates), metadata |-> metadata])

\* The whole function.  hasPlumber is HAS_PDFPLUMBER; scanRaises: an exception
\* in the first try block (pdfplumber.open, extract_text, extract_tables);
\* fallbackRaiseAt: the page of the second pass whose extract_text raises (0: none).
extract_pins_from_tables(d, hasPlumber, scanRaises, fallbackRaiseAt) ==
    IF ~hasPlumber \/ scanRaises THEN None
    ELSE TableResult(Candidates(d.pages, fallbackRaiseAt), FirstPageMetadata(d.pages))

-----------------------------------------------------------------------------
(* parse.py: extract_pins_traditional (lines 27-87)                         *)

\* (mutant) the table result counts only when it also carries metadata
TableSucceeded_NeedsMetadata(r) ==
    r # None /\ r[1].pins # << >> /\ r[1].metadata # None

\* (mutant) any value of the table strategy counts as a success
TableSucceeded_AnyResult(r) == r # None

\* line 52: result and result.get("pins")
TableSucceeded(r) == r # None /\ r[1].pins # << >>

\* lines 63 and 77: "if pins" for a list of names or None
NamesFound(names) == names # None /\ names[1] # << >>

\* (mutant) enumerate(pins) without the start value 1
NormalizeNames_FromZero(names) == [i \in DOMAIN names |-> Pin(i - 1, names[i], None)]

\* lines 68 and 82: [Pin(number=i, name=name) for i, name in enumerate(pins, 1)]
NormalizeNames(names) == [i \in DOMAIN names |-> Pin(i, names[i], None)]

\* lines 69 and 83
NamesResult(names) == Some([pins |-> NormalizeNames(names), metadata |-> None])

\* pdfplumber raises nowhere
NoTableFault == [scan |-> FALSE, fallback |-> 0]

\* the faults an external call of a strategy can suffer in the current run
\* (the second pass of the table strategy only runs when the first did not raise)
TableFaults ==
    IF deps.pdfplumber
    THEN {[scan |-> TRUE, fallback |-> 0]} \cup
         {[scan |-> FALSE, fallback |-> f] : f \in 0 .. Min(PagesToCheck, Len(doc.pages))}
    ELSE {[scan |-> FALSE, fallback |-> 0]}
RenderFaults(pages) ==
    IF ~deps.ocr THEN {"none"}
    ELSE IF pages = << >> THEN {"none", "render"}
    ELSE {"none", "render", "recognize"}

\* the log entries <<strategy, call>> of the faults f of one strategy call
FaultNames(strategy, f) ==
    IF strategy = "table"
    THEN (IF f.scan THEN {<<"table", "scan">>} ELSE {}) \cup
         (IF f.fallback # 0 THEN {<<"table", "fallback">>} ELSE {})
    ELSE IF f = "none" THEN {} ELSE {<<strategy, f>>}

\* (mutant) a table strategy without pins is followed by the text strategy
NextStep_SkipsDiagram(strategy, found) ==
    IF found THEN "Done"
    ELSE CASE strategy = "table" -> "TryText"
           [] strategy = "ocr"   -> "TryText"
           [] strategy = "text"  -> "Failed"

\* (mutant) a diagram strategy without names is tried once more
NextStep_Retries(strategy, found) ==
    IF found THEN "Done"
    ELSE CASE strategy = "table" -> "TryDiagram"
           [] strategy = "ocr"   -> "TryDiagram"
           [] strategy = "text"  -> "Failed"

\* lines 52-87: where the chain goes after a strategy returned
NextStep(strategy, found) ==
    IF found THEN "Done"
    ELSE CASE strategy = "table" -> "TryDiagram"
           [] strategy = "ocr"   -> "TryText"
           [] strategy = "text"  -> "Failed"

\* lines 51-57: what the orchestrator does with the value r of the table strategy
AfterTable(r) ==
    /\ tableOut' = r
    /\ result' = IF TableSucceeded(r) THEN r ELSE result
    /\ pc' = NextStep("table", TableSucceeded(r))

\* lines 48-57: Method 1
TryTable ==
    /\ pc = "TryTable"
    /\ \E f \in TableFaults :
          /\ AfterTable(extract_pins_from_tables(doc, deps.pdfplumber, f.scan, f.fallback))
          /\ tableFault' = f
          /\ faults' = faults \cup FaultNames("table", f)
    /\ invoked' = Append(invoked, "table")
    /\ UNCHANGED <<doc, ocrPages, textPages, deps, ocrOut, textOut, tableAgain>>
    /\ UNCHANGED mainVars

\* lines 62-71: what the orchestrator does with the outcome o of the diagram
\* strategy (an exception is not caught and leaves the function)
AfterDiagram(o) ==
    /\ ocrOut' = o.value
    /\ result' = IF NamesFound(o.value) THEN NamesResult(o.value[1]) ELSE result
    /\ pc' = IF o.raised THEN "Raised" ELSE NextStep("ocr", NamesFound(o.value))

\* lines 59-71: Method 2
TryDiagram ==
    /\ pc = "TryDiagram"
    /\ \E f \in RenderFaults(ocrPages) :
          /\ AfterDiagram(extract_pins_from_ocr(ocrPages, deps.ocr, f))
          /\ faults' = faults \cup FaultNames("ocr", f)
    /\ invoked' = Append(invoked, "ocr")
    /\ UNCHANGED <<doc, ocrPages, textPages, deps, tableOut, textOut, tableFault, tableAgain>>
    /\ UNCHANGED mainVars

\* lines 76-87: what the orchestrator does with the outcome o of the text
\* strategy, the final "return None" included
AfterText(o) ==
    /\ textOut' = o.value
    /\ result' = IF NamesFound(o.value) THEN NamesResult(o.value[1]) ELSE result
    /\ pc' = IF o.raised THEN "Raised" ELSE NextStep("text", NamesFound(o.value))

\* lines 73-87: Method 3
TryText ==
    /\ pc = "TryText"
    /\ \E f \in RenderFaults(textPages) :
          /\ AfterText(extract_pins_from_text(textPages, deps.ocr, f))
          /\ faults' = faults \cup FaultNames("text", f)
    /\ invoked' = Append(invoked, "text")
    /\ UNCHANGED <<doc, ocrPages, textPages, deps, tableOut, ocrOut, tableFault, tableAgain>>
    /\ UNCHANGED mainVars

Next == TryTable \/ TryDiagram \/ TryText

\* the state at the entry of extract_pins_traditional
Entry ==
    /\ pc = "TryTable"
    /\ tableOut = None /\ ocrOut = None /\ textOut = None
    /\ tableFault = NoTableFault /\ tableAgain = None
    /\ invoked = << >>
    /\ faults = {}
    /\ result = None

Deps == [pdfplumber : BOOLEAN, ocr : BOOLEAN]

\* extract_pins_traditional called on its own, outside main(): the state of
\* main() stays as it is here
Standalone ==
    /\ args = [method |-> "traditional", convert |-> "none"]
    /\ llmCfg = [provider |-> "mock", openai |-> FALSE, anthropic |-> FALSE]
    /\ mainPc = "Standalone"
    /\ submitted = << >> /\ replies = << >>
    /\ llmOut = None /\ printed = None /\ exitCode = None

-----------------------------------------------------------------------------
(* The documents of the runs.                                               *)

Page(text, tables) == [text |-> text, tables |-> tables]
Doc(pages) == [pages |-> pages]

PinHeader == <<<<"P","I","N">>, <<"N","A","M","E">>, <<"T","Y","P","E">>>>
RowVdd == <<<<"1">>, <<"V","D","D">>, <<"P","o","w","e","r">>>>
RowVcc == <<<<"0","1">>, <<"V","C","C">>, <<"S","u","p","p","l","y">>>>
RowSda == <<<<"2">>, <<"S","D","A">>, <<"D","i","g","i","t","a","l"," ","I","/","O">>>>
RowNc  == <<<<"0">>, <<"N","C">>, << >>>>

\* a scanned page: no text layer and no table
BlankPage == Page(<< >>, << >>)
\* a first page with metadata and a pin table whose rows are not in pin order
PinPage == Page(<<"A","D","S","1","1","1","5","\n","F","E","A","T","U","R","E","S","\n","-"," ","L","o","w"," ","p","o","w","e","r","\n">>, << <<PinHeader, RowSda, RowVdd, RowNc>> >>)
\* a page with metadata and no pin
MetaPage == Page(<<"T","P","S","5","4","3","6","0"," ","s","t","e","p","-","d","o","w","n"," ","c","o","n","v","e","r","t","e","r","\n">>, << >>)
\* a page whose only pin is on a text line
LinePage == Page(<<"4"," ","V","S","S"," ","G","r","o","u","n","d"," ","c","o","n","n","e","c","t","i","o","n">>, << >>)

ChainDocs ==
    {Doc(<< >>), Doc(<<BlankPage>>), Doc(<<PinPage>>), Doc(<<MetaPage>>),
     Doc(<<LinePage>>), Doc(<<BlankPage, PinPage>>), Doc(<<LinePage, PinPage>>),
     Doc(<<MetaPage, BlankPage>>)}

\* what pytesseract reads on a page at PDF_DPI and at OCR_DPI
ChainOcrTexts == {<< >>, <<"V","D","D"," ","1","\n">>, <<"2"," ","S","D","A","\n">>}
ChainLineTexts == {<< >>, <<"2"," ","S","D","A","\n">>, <<"1"," ","V","D","D">>}

\* extract_pins_traditional on a small set of documents of every kind
Init ==
    /\ Entry
    /\ Standalone
    /\ doc \in ChainDocs
    /\ ocrPages \in [1 .. Len(doc.pages) -> ChainOcrTexts]
    /\ textPages \in [1 .. Len(doc.pages) -> ChainLineTexts]
    /\ deps \in Deps

Spec == Init /\ [][Next]_vars

\* Documents for the table strategy: two pages, tables 1 and 2 on page 1 and
\* table 3 on page 2, filled by at most MaxItems items, each a row added to
\* one of the tables or one or two lines added to the text of one of the pages.
TableRows == {RowVdd, RowVcc, RowNc}
TextLines == {<<"1"," ","V","S","S"," ","G","r","o","u","n","d"," ","p","i","n">>, <<"0"," ","N","C"," ","n","o","n","e","\n","4"," ","V","S","S"," ","G","r","o","u","n","d"," ","c","o","n","n","e","c","t","i","o","n">>}
TableItems ==
    {[kind |-> "row", at |-> t, v |-> r] : t \in 1 .. 3, r \in TableRows} \cup
    {[kind |-> "line", at |-> p, v |-> <<l>>] : p \in 1 .. 2, l \in TextLines}

\* the rows (lines) the items put at one table (page), in item order
RECURSIVE ItemsAt(_, _, _)
ItemsAt(items, kind, at) ==
    IF items = << >> THEN << >>
    ELSE (IF Head(items).kind = kind /\ Head(items).at = at
          THEN <<Head(items).v>> ELSE << >>) \o ItemsAt(Tail(items), kind, at)

RECURSIVE JoinLines(_)
JoinLines(ls) ==
    IF ls = << >> THEN << >>
    ELSE IF Len(ls) = 1 THEN ls[1][1]
    ELSE ls[1][1] \o <<"\n">> \o JoinLines(Tail(ls))

TableOf(items, t) == <<PinHeader>> \o ItemsAt(items, "row", t)

DocOfItems(items) ==
    Doc(<<Page(JoinLines(ItemsAt(items, "line", 1)), <<TableOf(items, 1), TableOf(items, 2)>>),
          Page(JoinLines(ItemsAt(items, "line", 2)), <<TableOf(items, 3)>>)>>)

MaxItems == 3

InitTable ==
    /\ Entry
    /\ Standalone
    /\ \E items \in SeqsUpTo(TableItems, MaxItems) : doc = DocOfItems(items)
    /\ ocrPages = <<<< >>, << >>>>
    /\ textPages = <<<< >>, << >>>>
    /\ deps = [pdfplumber |-> TRUE, ocr |-> TRUE]

SpecTable == InitTable /\ [][Next]_vars

\* Scanned documents for the diagram strategy: two pages without text layer;
\* the recognised text is made of at most MaxFragments fragments and the page
\* break falls between any two of them.
Fragments == {<<"V","D","D"," ","1">>, <<"2"," ","S","D","A">>, <<"V","D","D"," ","1","\n">>, <<"2"," ","S","D","A","\n">>}
MaxFragments == 3

InitDiagram ==
    /\ Entry
    /\ Standalone
    /\ doc = Doc(<<BlankPage, BlankPage>>)
    /\ \E fs \in SeqsUpTo(Fragments, MaxFragments) : \E k \in 0 .. Len(fs) :
          ocrPages = <<Concat(SubSeq(fs, 1, k)), Concat(SubSeq(fs, k + 1, Len(fs)))>>
    /\ textPages = <<<<"1"," ","V","D","D","\n">>, <<"2"," ","S","D","A">>>>
    /\ deps = [pdfplumber |-> TRUE, ocr |-> TRUE]

SpecDiagram == InitDiagram /\ [][Next]_vars

-----------------------------------------------------------------------------
(* extractors/llm_extractor.py: the language-model mode.                    *)
(* The provider's answer to a page is an input of the run: a valid object   *)
(* with pins, a valid object with an empty pin list, content that fails     *)
(* validation, or a provider error.                                         *)

DEFAULT_MAX_PAGES == 15

\* lines 64-72: the pages whose text is not blank, numbered as in the PDF
RECURSIVE PagesData(_, _)
PagesData(pages, k) ==
    IF k > Min(Len(pages), DEFAULT_MAX_PAGES) THEN << >>
    ELSE (IF pages[k].text # << >> /\ Strip(pages[k].text) # << >>
          THEN <<[page_number |-> k, text |-> pages[k].text,
                  char_count |-> Len(pages[k].text)]>>
          ELSE << >>) \o PagesData(pages, k + 1)

\* lines 36-83; readRaises: pdfplumber.open or page.extract_text raises
extract_text_from_pdf(d, hasPlumber, readRaises) ==
    IF ~hasPlumber \/ readRaises THEN << >> ELSE PagesData(d.pages, 1)

\* lines 149, 204, 256: the branch process_page_with_llm takes
ProviderBranch(cfg) ==
    IF cfg.provider = "openai" /\ cfg.openai THEN "openai"
    ELSE IF cfg.provider = "anthropic" /\ cfg.anthropic THEN "anthropic"
    ELSE "mock"

\* line 268
MockKeywords == {<<"p","i","n">>, <<"t","e","r","m","i","n","a","l">>, <<"c","o","n","n","e","c","t","i","o","n">>, <<"s","i","g","n","a","l">>, <<"d","e","s","c","r","i","p","t","i","o","n">>}

\* lines 86-279.  Provider branches: "return pins_data if pins else None"
\* (192, 244), ValidationError and any other exception give None (194-201,
\* 246-253).  Mock branch: {"pins": []} when a keyword occurs in the page
\* text, else None (268-279).
process_page_with_llm(page_text, cfg, reply) ==
    IF ProviderBranch(cfg) \in {"openai", "anthropic"}
    THEN (IF reply.kind = "pins" /\ reply.pins # << >>
          THEN Some([pins |-> reply.pins])
          ELSE None)
    ELSE (IF ContainsAny(Lower(page_text), MockKeywords)
          THEN Some([pins |-> << >>])
          ELSE None)

\* line 321: "if result" for a dict or None; a dict with the key "pins" is
\* true whatever the list it holds
ResultIsTrue(r) == r # None

\* (mutant) the loop stops at the first page that gives no result
AfterPage_StopsAtFailure(acc, page_number, r) ==
    IF acc.stopped \/ ~ResultIsTrue(r)
    THEN [acc EXCEPT !.stopped = TRUE,
                     !.submitted = IF acc.stopped THEN @ ELSE Append(@, page_number)]
    ELSE [acc EXCEPT !.results = Append(@, r[1]),
                     !.submitted = Append(@, page_number)]

\* lines 315-324: one turn of the loop; all_pins is never extended (line 324
\* is a comment)
AfterPage(acc, page_number, r) ==
    [acc EXCEPT !.results = IF ResultIsTrue(r) THEN Append(@, r[1]) ELSE @,
                !.submitted = Append(@, page_number)]

\* lines 311-324
RECURSIVE LlmLoop(_, _, _, _, _)
LlmLoop(pages_data, cfg, rs, k, acc) ==
    IF k > Len(pages_data) THEN acc
    ELSE LlmLoop(pages_data, cfg, rs, k + 1,
                 AfterPage(acc, pages_data[k].page_number,
                           process_page_with_llm(pages_data[k].text, cfg, rs[k])))

\* lines 334-340
LlmResult(pages_data, acc) ==
    [value |-> Some([success |-> TRUE,
                     total_pages |-> Len(pages_data),
                     pages_with_pins |-> Len(acc.results),
                     pins |-> acc.all_pins,
                     llm_results |-> acc.results]),
     submitted |-> acc.submitted]

\* lines 282-340: the returned value and the pages submitted on the way
extract_pins_with_llm(pages_data, cfg, rs) ==
    IF pages_data = << >> THEN [value |-> None, submitted |-> << >>]
    ELSE LlmResult(pages_data,
                   LlmLoop(pages_data, cfg, rs, 1,
                           [results |-> << >>, all_pins |-> << >>,
                            submitted |-> << >>, stopped |-> FALSE]))

-----------------------------------------------------------------------------
(* parse.py: main() (lines 90-344) and the JSON it prints.                  *)

\* JSON values, tagged by their kind
JNull == [t |-> "null"]
JInt(n) == [t |-> "int", v |-> n]
JStr(s) == [t |-> "str", v |-> s]
JList(xs) == [t |-> "list", v |-> xs]
JObj(f) == [t |-> "obj", v |-> f]
JOpt(o) == IF o = None THEN JNull ELSE JStr(o[1])
JStrs(ss) == JList([i \in DOMAIN ss |-> JStr(ss[i])])

\* lines 320-321: pin.model_dump(exclude_none=True)
DumpPin(pin) ==
    JObj([k \in {"number", "name"} \cup (IF pin.details = None THEN {} ELSE {"details"}) |->
            CASE k = "number" -> JInt(pin.number)
              [] k = "name" -> JStr(pin.name)
              [] k = "details" ->
                    JObj([a \in DOMAIN pin.details[1] |-> JStr(pin.details[1][a])])])

\* the metadata dict of extract_metadata_from_text as json.dumps writes it
DumpMetadata(m) ==
    JObj([features |-> JStrs(m.features),
          applications |-> JStrs(m.applications),
          description |-> JOpt(m.description),
          title |-> JOpt(m.title),
          part_number |-> JOpt(m.part_number)])

\* lines 318-332: result_data; "if metadata" holds for every dict of five keys
ResultData(pins, metadata) ==
    JObj([k \in {"pins", "count"} \cup (IF metadata = None THEN {} ELSE {"metadata"}) |->
            CASE k = "pins" -> JList([i \in DOMAIN pins |-> DumpPin(pins[i])])
              [] k = "count" -> JInt(Len(pins))
              [] k = "metadata" -> DumpMetadata(metadata[1])])

OtherVars == <<doc, ocrPages, textPages, deps, args, llmCfg, tableAgain>>
ChainVars == <<pc, tableOut, tableFault, ocrOut, textOut, invoked, result>>
LlmVars == <<submitted, replies, llmOut>>

\* lines 167-173 and 199-205: download_pdf; any exception ends the run with 1
Download ==
    /\ mainPc = "Start"
    /\ \E ok \in BOOLEAN :
          IF ok
          THEN /\ mainPc' = (IF args.convert # "none" THEN "Convert" ELSE "Extract")
               /\ UNCHANGED <<faults, exitCode>>
          ELSE /\ mainPc' = "Exit"
               /\ faults' = faults \cup {<<"main", "download">>}
               /\ exitCode' = Some(1)
    /\ UNCHANGED <<OtherVars, ChainVars, LlmVars, printed>>

\* extractors/pdf_to_text.py: convert_pdf_to_text and convert_pdf_to_markdown
\* return False without pdfplumber or when reading or writing raises
ConvertSucceeds(hasPlumber, raises) == hasPlumber /\ ~raises

\* lines 175-193
Convert ==
    /\ mainPc = "Convert"
    /\ \E raises \in (IF deps.pdfplumber THEN BOOLEAN ELSE {FALSE}) :
          /\ exitCode' = Some(IF ConvertSucceeds(deps.pdfplumber, raises) THEN 0 ELSE 1)
          /\ faults' = faults \cup (IF raises THEN {<<"convert", "write">>} ELSE {})
    /\ mainPc' = "Exit"
    /\ UNCHANGED <<OtherVars, ChainVars, LlmVars, printed>>

\* the answers a provider can give to one page
LlmPin1 == [number |-> 1, name |-> <<"V","D","D">>, details |-> None]
LlmPin2 == [number |-> 2, name |-> <<"S","D","A">>, details |-> None]
Replies ==
    {[kind |-> "pins", pins |-> <<LlmPin1>>],
     [kind |-> "pins", pins |-> <<LlmPin2, LlmPin1>>],
     [kind |-> "empty", pins |-> << >>],
     [kind |-> "invalid", pins |-> << >>],
     [kind |-> "error", pins |-> << >>]}
\* the mock branch calls no provider
RepliesOf(cfg) ==
    IF ProviderBranch(cfg) = "mock" THEN {[kind |-> "none", pins |-> << >>]} ELSE Replies

\* lines 222-238: what main() does with the value of extract_pins_with_llm.
\* With pins main() would go on to the output, where the name metadata is
\* not bound in this mode and the exception ends the process with 1.
LlmExitCode(value) ==
    CASE value = None \/ ~value[1].success -> 1
      [] value # None /\ value[1].success /\ value[1].pins = << >> -> 1
      [] OTHER -> 1

AfterLlm(o) ==
    /\ llmOut' = o.value
    /\ submitted' = o.submitted
    /\ exitCode' = Some(LlmExitCode(o.value))

\* lines 210-238: --method llm
ExtractLlm ==
    /\ mainPc = "Extract" /\ args.method = "llm"
    /\ \E readRaises \in (IF deps.pdfplumber THEN BOOLEAN ELSE {FALSE}) :
       \E rs \in [1 .. Len(extract_text_from_pdf(doc, deps.pdfplumber, readRaises)) ->
                      RepliesOf(llmCfg)] :
          /\ AfterLlm(extract_pins_with_llm(
                         extract_text_from_pdf(doc, deps.pdfplumber, readRaises), llmCfg, rs))
          /\ replies' = rs
          /\ faults' = faults \cup (IF readRaises THEN {<<"llm", "read">>} ELSE {})
    /\ mainPc' = "Exit"
    /\ UNCHANGED <<OtherVars, ChainVars, printed>>

\* line 241: the call of extract_pins_traditional
CallTraditional ==
    /\ mainPc = "Extract" /\ args.method = "traditional" /\ pc = "Idle"
    /\ pc' = "TryTable"
    /\ UNCHANGED <<OtherVars, LlmVars, tableOut, tableFault, ocrOut, textOut, invoked, result,
                   faults, mainPc, printed, exitCode>>

\* line 243: pins = result.get("pins", []) when result is true
PinsOf(r) == IF r # None THEN r[1].pins ELSE << >>

\* lines 242-344: the output after extract_pins_traditional returned
Output ==
    /\ mainPc = "Extract" /\ pc \in {"Done", "Failed"}
    /\ IF PinsOf(result) # << >>
       THEN /\ printed' = Some(ResultData(PinsOf(result), result[1].metadata))
            /\ exitCode' = Some(0)
       ELSE /\ printed' = None
            /\ exitCode' = Some(1)
    /\ mainPc' = "Exit"
    /\ UNCHANGED <<OtherVars, ChainVars, LlmVars, faults>>

\* lines 241 and 347-348: main() catches nothing around
\* extract_pins_traditional; an exception that leaves it ends the process
\* with a traceback and exit code 1
Uncaught ==
    /\ mainPc = "Extract" /\ pc = "Raised"
    /\ exitCode' = Some(1)
    /\ mainPc' = "Exit"
    /\ UNCHANGED <<OtherVars, ChainVars, LlmVars, faults, printed>>

NextMain ==
    \/ Download \/ Convert \/ ExtractLlm \/ CallTraditional
    \/ TryTable \/ TryDiagram \/ TryText
    \/ Output \/ Uncaught

\* a row without type, a page that names pins in its text, a page of blanks
RowScl == <<<<"3">>, <<"S","C","L">>, << >>>>
BarePage == Page(<<"A","D","S","1","1","1","5">>, << <<PinHeader, RowScl, RowVdd>> >>)
SignalPage == Page(<<"P","i","n"," ","d","e","s","c","r","i","p","t","i","o","n","\n">>, << >>)
SpacePage == Page(<<" ","\n">>, << >>)

MainDocs ==
    {Doc(<< >>), Doc(<<BarePage>>), Doc(<<PinPage, SignalPage>>),
     Doc(<<MetaPage, SpacePage, SignalPage>>), Doc(<<BlankPage, LinePage>>)}
MainOcrTexts == {<< >>, <<"V","D","D"," ","1","\n">>}
MainLineTexts == {<< >>, <<"1"," ","V","D","D">>}
LlmCfgs ==
    {[provider |-> "openai", openai |-> TRUE, anthropic |-> FALSE],
     [provider |-> "anthropic", openai |-> FALSE, anthropic |-> TRUE],
     [provider |-> "openai", openai |-> FALSE, anthropic |-> TRUE],
     [provider |-> "mock", openai |-> TRUE, anthropic |-> TRUE]}

\* one run of the command line; what a mode does not read is left blank
InitMain ==
    /\ mainPc = "Start" /\ pc = "Idle"
    /\ tableOut = None /\ ocrOut = None /\ textOut = None /\ result = None
    /\ tableFault = NoTableFault /\ tableAgain = None
    /\ invoked = << >> /\ faults = {}
    /\ submitted = << >> /\ replies = << >>
    /\ llmOut = None /\ printed = None /\ exitCode = None
    /\ args \in [method : {"traditional", "llm"}, convert : {"none", "txt", "md"}]
    /\ doc \in MainDocs
    /\ deps \in Deps
    /\ llmCfg \in (IF args.method = "llm" /\ args.convert = "none"
                   THEN LlmCfgs
                   ELSE {[provider |-> "mock", openai |-> FALSE, anthropic |-> FALSE]})
    /\ ocrPages \in [1 .. Len(doc.pages) ->
                        IF args.method = "traditional" /\ args.convert = "none"
                        THEN MainOcrTexts ELSE {<< >>}]
    /\ textPages \in [1 .. Len(doc.pages) ->
                         IF args.method = "traditional" /\ args.convert = "none"
                         THEN MainLineTexts ELSE {<< >>}]

SpecMain == InitMain /\ [][NextMain]_vars

-----------------------------------------------------------------------------
(* Names at and beyond config.MAX_PIN_NAME_LENGTH, for all three strategies. *)

Name30 == <<"A","B","C","D","E","F","G","H","I","J","K","L","M","N","O","P","Q","R","S","T","U","V","W","X","Y","Z","0","1","2","3">>
Name31 == <<"A","B","C","D","E","F","G","H","I","J","K","L","M","N","O","P","Q","R","S","T","U","V","W","X","Y","Z","0","1","2","3","4">>
RowName30 == <<<<"1">>, Name30, <<"P","o","w","e","r">>>>
RowName31 == <<<<"2">>, Name31, <<"P","o","w","e","r">>>>
LongNamePage == Page(<< >>, << <<PinHeader, RowName31, RowName30>> >>)
NameDocs == {Doc(<<BlankPage>>), Doc(<<LongNamePage>>), Doc(<<MetaPage>>), Doc(<<LinePage>>)}
NameOcrTexts == {<< >>, <<"V","D","D"," ","1","\n">>, <<"A","B","C","D","E","F","G","H","I","J","K","L","M","N","O","P","Q","R","S","T","U","V","W","X","Y","Z","0","1","2","3","4"," ","1","\n">>}
NameLineTexts == {<< >>, <<"1"," ","V","D","D">>, <<"1"," ","A","B","C","D","E","F","G","H","I","J","K","L","M","N","O","P","Q","R","S","T","U","V","W","X","Y","Z","0","1","2","3","4">>}

InitNames ==
    /\ Entry
    /\ Standalone
    /\ doc \in NameDocs
    /\ ocrPages \in [1 .. Len(doc.pages) -> NameOcrTexts]
    /\ textPages \in [1 .. Len(doc.pages) -> NameLineTexts]
    /\ deps \in Deps

SpecNames == InitNames /\ [][Next]_vars

-----------------------------------------------------------------------------
(* A second call of extract_pins_from_tables on the same document, with     *)
(* pdfplumber behaving as in the first call.                                *)

\* (mutant) the second call finds the document already read to its end
Reopened_Exhausted(d) == Doc(<< >>)

\* table_extractor.py lines 139 and 405: every call opens the PDF by its path
\* and reads it from its first page; the function keeps nothing between calls
Reopened(d) == d

RunTableAgain ==
    /\ "table" \in Range(invoked) /\ tableAgain = None
    /\ tableAgain' = Some(extract_pins_from_tables(Reopened(doc), deps.pdfplumber,
                                                   tableFault.scan, tableFault.fallback))
    /\ UNCHANGED <<pc, doc, ocrPages, textPages, deps, tableOut, tableFault,
                   ocrOut, textOut, invoked, faults, result>>
    /\ UNCHANGED mainVars

NextTwice == TryTable \/ TryDiagram \/ TryText \/ RunTableAgain

SpecTwice == Init /\ [][NextTwice]_vars

-----------------------------------------------------------------------------
(* Pin tables with several kinds of header and of type and direction cell,  *)
(* and a page text with fallback lines, for the table strategy.             *)

HdrIoType == <<<<"P","I","N","#">>, <<"N","A","M","E">>, <<"I","/","O"," ","T","Y","P","E">>>>
HdrType == <<<<"P","I","N">>, <<"N","A","M","E">>, <<"T","Y","P","E">>, <<"N","O","T","E">>>>
HdrDirection == <<<<"P","I","N">>, <<"N","A","M","E">>, <<"T","Y","P","E">>, <<"D","I","R","E","C","T","I","O","N"," ","(","I","/","O",")">>>>
HdrPinName == <<<<"P","I","N"," ","N","A","M","E">>, <<"T","Y","P","E">>, <<"D","E","S","C","R","I","P","T","I","O","N">>>>
HdrSignal == <<<<"P","I","N">>, <<"S","I","G","N","A","L">>, <<"K","I","N","D">>>>
HeaderRows == {HdrIoType, HdrType, HdrDirection, HdrPinName, HdrSignal}

RowIo == <<<<"3">>, <<"S","D","A">>, <<"D","i","g","i","t","a","l"," ","I","/","O">>>>
RowGnd == <<<<"4">>, <<"G","N","D">>, <<"G","r","o","u","n","d">>, << >>>>
RowBlankType == <<<<"1">>, <<"V","D","D">>, << >>, <<"S","u","p","p","l","y">>>>
RowOddType == <<<<"2">>, <<"V","I","O">>, <<"R","a","i","l">>, <<"P","o","w","e","r"," ","s","u","p","p","l","y">>>>
RowBidir == <<<<"5">>, <<"S","C","L">>, <<"D","i","g","i","t","a","l"," ","b","i","d","i","r","e","c","t","i","o","n","a","l">>, <<"-">>>>
RowInput == <<<<"6">>, <<"C","L","K">>, <<"D","i","g","i","t","a","l"," ","i","n","p","u","t">>, <<"n","/","a">>>>
RowTypeC == <<<<"7">>, <<"T","Y","P","E","C">>, <<"U","S","B"," ","c","o","n","n","e","c","t","o","r">>>>
DataRows == {RowIo, RowGnd, RowBlankType, RowOddType, RowBidir, RowInput, RowTypeC}

\* a header row followed by one or two rows, each a data row or another header row
CellTables ==
    {<<h, a>> : h \in HeaderRows, a \in HeaderRows \cup DataRows} \cup
    {<<h, a, b>> : h \in HeaderRows, a \in HeaderRows \cup DataRows, b \in DataRows}
CellTexts == {<< >>, <<"4"," ","V","S","S"," ","G","r","o","u","n","d"," ","c","o","n","n","e","c","t","i","o","n">>, <<"2","5","7"," ","V","S","S"," ","G","r","o","u","n","d","\n","0"," ","V","S","S"," ","G","r","o","u","n","d","\n","5"," ","V","S","S"," ","G","r","o","u","n","d">>}

InitCells ==
    /\ Entry
    /\ Standalone
    /\ \E t \in CellTables : \E x \in CellTexts : doc = Doc(<<Page(x, <<t>>)>>)
    /\ ocrPages = <<<< >>>>
    /\ textPages = <<<< >>>>
    /\ deps = [pdfplumber |-> TRUE, ocr |-> TRUE]

SpecCells == InitCells /\ [][Next]_vars
-----------------------------------------------------------------------------
(* Properties.                                                              *)

ChainOrder == <<"table", "ocr", "text">>
LastInvoked == invoked[Len(invoked)]
TablePins == IF tableOut = None THEN << >> ELSE tableOut[1].pins
NamesOf(out) == IF out = None THEN << >> ELSE out[1]
ResultPins == IF result = None THEN << >> ELSE result[1].pins
PinNumbers(pins) == {pins[i].number : i \in DOMAIN pins}
\* the call of the strategy came back to the orchestrator with a value
HasReturned(strategy) ==
    strategy \in Range(invoked) /\ <<strategy, "recognize">> \notin faults

\* C1: in the traditional chain, once the table strategy has returned at least
\* one pin, neither the diagram (OCR) strategy nor the plain-text strategy is
\* invoked in that run.
C1_TablePrecedence ==
    (tableOut # None /\ Len(tableOut[1].pins) >= 1) => invoked = <<"table">>

C1_Witness ==
    /\ pc = "Done" /\ invoked = <<"table">>
    /\ tableOut # None /\ Len(tableOut[1].pins) >= 1

C3_FaultsAbsorbed ==
    /\ pc # "Raised"
    /\ <<"table", "scan">> \in faults => tableOut = None
    /\ (\E c \in {"render", "recognize"} : <<"ocr", c>> \in faults) => ocrOut = None
    /\ (\E c \in {"render", "recognize"} : <<"text", c>> \in faults) => textOut = None
    /\ (\E c \in {"scan"} : <<"table", c>> \in faults) =>
          (pc = "TryDiagram" \/ "ocr" \in Range(invoked))
    /\ (\E c \in {"render", "recognize"} : <<"ocr", c>> \in faults) =>
          (pc = "TryText" \/ "text" \in Range(invoked))

\* C4: within one run every strategy is invoked at most once; a strategy that
\* returned no result, a failure included, is never attempted again.
C4_NoRetry ==
    \A i \in DOMAIN invoked : \A j \in DOMAIN invoked : i # j => invoked[i] # invoked[j]

C4_Witness ==
    /\ pc \in {"Done", "Failed"} /\ invoked = ChainOrder
    /\ <<"table", "scan">> \in faults /\ <<"ocr", "render">> \in faults

\* C5: the pins the table strategy returns (table rows plus text-line
\* fallback) have pairwise distinct numbers and none has number 0.
C5_UniqueNonZeroNumbers ==
    \A i \in DOMAIN TablePins :
        /\ TablePins[i].number # 0
        /\ \A j \in DOMAIN TablePins : i # j => TablePins[i].number # TablePins[j].number

\* the rows of the document held two candidates of one number, a row or a
\* line was numbered 0, and at least two pins were returned
C5_Witness ==
    /\ Len(TablePins) >= 2
    /\ Len(ScanPages(doc.pages)) > Cardinality({c[1] : c \in Range(ScanPages(doc.pages))})
    /\ \E p \in Range(doc.pages) :
          \/ \E t \in Range(p.tables) : RowNc \in Range(t)
          \/ Contains(p.text, <<"0"," ","N","C"," ","n","o","n","e">>)

\* every text line of the pages that is a candidate on its own, in page and
\* line order
RECURSIVE LinesAlone(_)
LinesAlone(lines) ==
    IF lines = << >> THEN << >>
    ELSE (IF LineAccepted(Head(lines), << >>) THEN <<LineCandidate(Head(lines))>> ELSE << >>)
         \o LinesAlone(Tail(lines))
RECURSIVE TextCandidatesAlone(_)
TextCandidatesAlone(pages) ==
    IF pages = << >> THEN << >>
    ELSE (IF Head(pages).text = << >> THEN << >>
          ELSE LinesAlone(Split(Head(pages).text, 1)))
         \o TextCandidatesAlone(Tail(pages))

FirstWith(cands, n) ==
    cands[CHOOSE i \in DOMAIN cands :
              cands[i][1] = n /\ \A j \in 1 .. i - 1 : cands[j][1] # n][2]
TableRanClean == "table" \in Range(invoked) /\ deps.pdfplumber /\ faults = {}

\* C6: of the candidates that share a pin number the table strategy emits
\* exactly the one met first in (page, table, row) order followed by
\* text-fallback order, so a table record beats a text record of that number.
C6_FirstSeenWins ==
    TableRanClean =>
        LET scan == ScanPages(doc.pages)
            all == scan \o TextCandidatesAlone(doc.pages)
            pins == TablePins
        IN  /\ PinNumbers(pins) = {all[i][1] : i \in DOMAIN all}
            /\ \A k \in DOMAIN pins :
                  /\ pins[k] = FirstWith(all, pins[k].number)
                  /\ (\E i \in DOMAIN scan : scan[i][1] = pins[k].number)
                      => pins[k] = FirstWith(scan, pins[k].number)

\* two different table records and a text line carry the same number
C6_Witness ==
    /\ TableRanClean
    /\ LET scan == ScanPages(doc.pages)
           text == TextCandidatesAlone(doc.pages)
       IN  \E i \in DOMAIN scan : \E j \in DOMAIN scan :
              /\ i < j /\ scan[i][1] = scan[j][1] /\ scan[i][2] # scan[j][2]
              /\ \E l \in DOMAIN text : text[l][1] = scan[i][1]

\* C7: the pins of every result of extract_pins_traditional are in
\* non-decreasing order of number, whichever strategy produced them.
C7_ResultSorted ==
    pc = "Done" =>
        \A i \in DOMAIN ResultPins : \A j \in DOMAIN ResultPins :
            i < j => ResultPins[i].number <= ResultPins[j].number

\* a table result of two pins whose rows came in descending order
C7_Witness ==
    /\ pc = "Done" /\ LastInvoked = "table" /\ Len(ResultPins) >= 2
    /\ LET scan == ScanPages(doc.pages)
       IN  \E i \in DOMAIN scan : \E j \in DOMAIN scan : i < j /\ scan[i][1] > scan[j][1]

\* C8: when the diagram or the text strategy supplies the result, the result
\* holds one Pin per returned name, numbered 1..N in list order and without
\* details, and its metadata is None.
C8_NamesNormalized ==
    (pc = "Done" /\ LastInvoked \in {"ocr", "text"}) =>
        LET names == NamesOf(IF LastInvoked = "ocr" THEN ocrOut ELSE textOut)
        IN  /\ result # None
            /\ Len(result[1].pins) = Len(names)
            /\ \A i \in 1 .. Len(names) :
                  result[1].pins[i] = [number |-> i, name |-> names[i], details |-> None]
            /\ result[1].metadata = None

\* the table strategy had found metadata, and the diagram strategy two names
C8_Witness ==
    /\ pc = "Done" /\ LastInvoked = "ocr" /\ Len(ResultPins) >= 2
    /\ tableOut # None /\ tableOut[1].metadata # None

\* the recognised text of the pages the diagram strategy reads
OcrText == Concat(ocrPages)
OcrRanClean ==
    "ocr" \in Range(invoked) /\ deps.ocr /\ \A f \in faults : f[1] # "ocr"

\* the two fragments of scenario E, in either order, one per line
ScenarioETexts == {<<"V","D","D"," ","1","\n","2"," ","S","D","A">>, <<"2"," ","S","D","A","\n","V","D","D"," ","1">>}

\* C9: recognised text that contains both "VDD 1" and "2 SDA", in whatever
\* arrangement, yields the names <<VDD, SDA>>, which the orchestrator maps to
\* pin 1 = VDD and pin 2 = SDA.
C9_ScenarioE ==
    (OcrRanClean /\ OcrText \in ScenarioETexts) =>
        /\ ocrOut = Some(<<<<"V","D","D">>, <<"S","D","A">>>>)
        /\ result = Some([pins |-> <<[number |-> 1, name |-> <<"V","D","D">>, details |-> None],
                                     [number |-> 2, name |-> <<"S","D","A">>, details |-> None]>>,
                          metadata |-> None])

\* the token-then-number matches followed by the number-then-token matches
Pooled == FindAllA(OcrText, 1) \o FindAllB(OcrText, 1)
PooledNumbers == {Pooled[i][1] : i \in DOMAIN Pooled}
LastPooledName(n) ==
    Pooled[CHOOSE i \in DOMAIN Pooled :
               Pooled[i][1] = n /\ \A j \in i + 1 .. Len(Pooled) : Pooled[j][1] # n][2]

\* C10: the diagram strategy pools the token-then-number matches followed by
\* the number-then-token matches, keeps for each number the last pooled pair
\* and returns the names in ascending order of number, one per number.
C10_LastWriteAscending ==
    OcrRanClean =>
        /\ Len(NamesOf(ocrOut)) = Cardinality(PooledNumbers)
        /\ \A n \in PooledNumbers :
              NamesOf(ocrOut)[1 + Cardinality({m \in PooledNumbers : m < n})]
                  = LastPooledName(n)

\* a number with two pooled pairs of different names, and a second number
C10_Witness ==
    /\ OcrRanClean
    /\ Cardinality(PooledNumbers) >= 2
    /\ \E i \in DOMAIN Pooled : \E j \in DOMAIN Pooled :
          i < j /\ Pooled[i][1] = Pooled[j][1] /\ Pooled[i][2] # Pooled[j][2]

-----------------------------------------------------------------------------
(* The language-model mode and the command line.                            *)

\* a run of --method llm that got past the download and has ended
LlmRunEnded ==
    /\ args.method = "llm" /\ args.convert = "none"
    /\ mainPc = "Exit" /\ <<"main", "download">> \notin faults

\* the provider's answer to the k-th extracted page held at least one pin
Answered(k) == replies[k].kind = "pins" /\ replies[k].pins # << >>
AnsweredPages == {k \in DOMAIN replies : Answered(k)}

\* the pin lists of the answers, in page order
RECURSIVE AnsweredPins(_)
AnsweredPins(k) ==
    IF k > Len(replies) THEN << >>
    ELSE (IF Answered(k) THEN replies[k].pins ELSE << >>) \o AnsweredPins(k + 1)

\* C11: in LLM mode the run ends with exit code 0 and pins emitted if and
\* only if at least one page contributed at least one pin, and with exit
\* code 1 otherwise.
C11_LlmGate ==
    LlmRunEnded =>
        IF AnsweredPages # {}
        THEN exitCode = Some(0) /\ printed # None
        ELSE exitCode = Some(1)

\* C12: the pins extract_pins_with_llm returns are the pin lists of the
\* contributing pages, concatenated in page order, nothing merged or moved.
C12_Concatenation ==
    (LlmRunEnded /\ llmOut # None) => llmOut[1].pins = AnsweredPins(1)

\* C13: a page whose answer is an explicitly empty pin list is not counted
\* among the pages with pins, whatever the provider mode: every entry of
\* llm_results holds at least one pin and pages_with_pins counts the pages
\* that gave one.
C13_EmptyNotCounted ==
    (LlmRunEnded /\ llmOut # None) =>
        /\ \A i \in DOMAIN llmOut[1].llm_results : llmOut[1].llm_results[i].pins # << >>
        /\ llmOut[1].pages_with_pins = Cardinality(AnsweredPages)

\* the numbers of the pages extract_text_from_pdf hands over: those of the
\* first DEFAULT_MAX_PAGES pages whose text is not blank, in page order
ExtractedPageNumbers ==
    IF ~deps.pdfplumber \/ <<"llm", "read">> \in faults THEN << >>
    ELSE SelectSeq([i \in 1 .. Min(Len(doc.pages), DEFAULT_MAX_PAGES) |-> i],
                   LAMBDA i : Strip(doc.pages[i].text) # << >>)

\* the entries of llm_results the answers with pins give, in page order
RECURSIVE AnsweredResults(_)
AnsweredResults(k) ==
    IF k > Len(replies) THEN << >>
    ELSE (IF Answered(k) THEN <<[pins |-> replies[k].pins]>> ELSE << >>)
         \o AnsweredResults(k + 1)

FailedAnswer(k) == replies[k].kind \in {"invalid", "error"}

\* C14: a validation failure or provider error on a page makes only that
\* page contribute nothing: every extracted page is submitted exactly once,
\* in page order, whatever earlier pages gave, and extract_pins_with_llm
\* still returns its value, holding the results of the other pages.
C14_PageFailuresIsolated ==
    LlmRunEnded =>
        /\ submitted = ExtractedPageNumbers
        /\ Len(replies) = Len(submitted)
        /\ submitted # << >> =>
              /\ llmOut # None /\ llmOut[1].success
              /\ llmOut[1].total_pages = Len(submitted)
        /\ (llmOut # None /\ ProviderBranch(llmCfg) # "mock") =>
              llmOut[1].llm_results = AnsweredResults(1)

\* a page failed and a later page, not the next one in the PDF, gave pins
C14_Witness ==
    /\ LlmRunEnded
    /\ submitted = <<1, 3>>
    /\ FailedAnswer(1) /\ Answered(2)
    /\ llmOut # None /\ llmOut[1].llm_results = <<[pins |-> replies[2].pins]>>

Ended == mainPc = "Exit"
DownloadFailed == <<"main", "download">> \in faults
ConversionSucceeded ==
    /\ args.convert # "none" /\ ~DownloadFailed
    /\ deps.pdfplumber /\ <<"convert", "write">> \notin faults
StrategyYieldedPin ==
    TablePins # << >> \/ NamesOf(ocrOut) # << >> \/ NamesOf(textOut) # << >>
ExtractionSucceeded ==
    /\ args.convert = "none" /\ ~DownloadFailed
    /\ IF args.method = "llm" THEN AnsweredPages # {} ELSE StrategyYieldedPin

\* C15: the exit code is 0 exactly when the pin extraction of the selected
\* mode or the conversion succeeded, and 1 when the download fails, when no
\* applicable strategy yields a pin or when the conversion fails; after a
\* download failure no extraction strategy is invoked.
C15_ExitCode ==
    Ended =>
        /\ exitCode = Some(IF ConversionSucceeded \/ ExtractionSucceeded THEN 0 ELSE 1)
        /\ DownloadFailed => (invoked = << >> /\ submitted = << >>)

\* C16: a document with zero extractable pages makes the table, diagram and
\* text strategies each report "no result", and the orchestrator reports
\* overall failure: it returns None and the exit code is 1.
C16_EmptyDocument ==
    (doc.pages = << >> /\ args.method = "traditional" /\ args.convert = "none") =>
        /\ tableOut = None /\ ocrOut = None /\ textOut = None /\ result = None
        /\ pc \in {"Idle", "TryTable", "TryDiagram", "TryText", "Failed"}
        /\ (Ended /\ ~DownloadFailed) =>
              /\ invoked = ChainOrder /\ pc = "Failed"
              /\ exitCode = Some(1) /\ printed = None

C16_Witness ==
    /\ doc.pages = << >> /\ deps.pdfplumber /\ deps.ocr /\ faults = {}
    /\ Ended /\ invoked = ChainOrder /\ pc = "Failed"
    /\ result = None /\ exitCode = Some(1)

-----------------------------------------------------------------------------
(* The data model: pins, details, metadata and the printed JSON.            *)

NameWithinBounds(pin) ==
    Len(pin.name) >= MIN_PIN_NAME_LENGTH /\ Len(pin.name) <= MAX_PIN_NAME_LENGTH

\* C17: every Pin of an extraction result has a non-empty name of at most
\* MAX_PIN_NAME_LENGTH (30) characters, whichever strategy produced it.
C17_NameLength ==
    \A i \in DOMAIN ResultPins : NameWithinBounds(ResultPins[i])

\* the fields of the metadata the table strategy returned, as JSON values
TableMetadataFields ==
    IF tableOut # None /\ tableOut[1].metadata # None
    THEN DumpMetadata(tableOut[1].metadata[1]).v
    ELSE << >>

\* C18: in the metadata the table strategy returns, a field that was not
\* found is None: features and applications are never an empty list and no
\* string field is an empty string.
C18_AbsentNotEmpty ==
    \A k \in DOMAIN TableMetadataFields :
        /\ TableMetadataFields[k] # JList(<< >>)
        /\ TableMetadataFields[k] # JStr(<< >>)

DetailKeys == {"type", "direction", "description"}
WellFormedDetails(pin) ==
    \/ pin.details = None
    \/ /\ DOMAIN pin.details[1] # {}
       /\ DOMAIN pin.details[1] \subseteq DetailKeys
       /\ "type" \in DOMAIN pin.details[1] => pin.details[1].type # ""
       /\ "direction" \in DOMAIN pin.details[1] => pin.details[1].direction # ""
       /\ "description" \in DOMAIN pin.details[1] => pin.details[1].description # << >>

\* C19: no Pin produced by the traditional chain carries an empty details
\* mapping: details is None or a mapping with at least one attribute, and
\* every attribute in it has a value that was derived.
C19_DetailsNeverEmpty ==
    /\ \A i \in DOMAIN TablePins : WellFormedDetails(TablePins[i])
    /\ \A i \in DOMAIN ResultPins : WellFormedDetails(ResultPins[i])

\* a table result with a pin without details next to one with details
C19_Witness ==
    /\ result # None /\ result = tableOut
    /\ \E i, j \in DOMAIN ResultPins :
          /\ ResultPins[i].details = None
          /\ ResultPins[j].details # None /\ DOMAIN ResultPins[j].details[1] # {}

\* the JSON value holds a null somewhere
RECURSIVE HasNull(_)
HasNull(j) ==
    CASE j.t = "null" -> TRUE
      [] j.t = "list" -> \E i \in DOMAIN j.v : HasNull(j.v[i])
      [] j.t = "obj" -> \E k \in DOMAIN j.v : HasNull(j.v[k])
      [] OTHER -> FALSE

\* C20: the JSON object printed on success holds no null-valued field
\* anywhere, in the pins or in the metadata: a field that was not found is
\* left out.
C20_NoNullPrinted ==
    printed # None => ~HasNull(printed[1])

-----------------------------------------------------------------------------
(* The table strategy: rows, headers, fallback lines.                       *)

PinsOfTableValue(r) == IF r = None THEN << >> ELSE r[1].pins

\* the numbers of the candidates the tables gave
ScanNumbers == {c[1] : c \in Range(ScanPages(doc.pages))}
ScenarioDLine == <<"4"," ","V","S","S"," ","G","r","o","u","n","d"," ","c","o","n","n","e","c","t","i","o","n">>
PinVss4 ==
    [number |-> 4, name |-> <<"V","S","S">>, details |-> Some([description |-> <<"G","r","o","u","n","d"," ","c","o","n","n","e","c","t","i","o","n">>])]

\* C21: a text-fallback line "<digits> <NAME> <description>" becomes a pin
\* only if its number is in 1..256 and no candidate of that number exists;
\* the line "4 VSS Ground connection" yields pin 4 VSS with the description
\* "Ground connection" when no table produced pin 4 and is dropped when a
\* table produced pin 4.
C21_TextFallbackLine ==
    (TableRanClean /\ LastInvoked = "table") =>
        LET scan == ScanPages(doc.pages)
            numbers == {scan[i][1] : i \in DOMAIN scan}
            pins == TablePins
        IN  /\ \A i \in DOMAIN pins :
                  IF pins[i].number \in numbers
                  THEN pins[i] = FirstWith(scan, pins[i].number)
                  ELSE pins[i].number \in 1 .. 256
            /\ (\E p \in DOMAIN doc.pages : doc.pages[p].text = ScenarioDLine) =>
                  IF 4 \in numbers
                  THEN PinVss4 \notin Range(pins)
                  ELSE PinVss4 \in Range(pins)

\* the line of scenario D gave pin 4 next to pins of a table
C21_Witness ==
    /\ TableRanClean
    /\ \E p \in DOMAIN doc.pages : doc.pages[p].text = ScenarioDLine
    /\ ScanNumbers # {} /\ 4 \notin ScanNumbers
    /\ PinVss4 \in Range(TablePins)

\* the table of the document under study
TheTable == doc.pages[1].tables[1]
PinSda3 ==
    [number |-> 3, name |-> <<"S","D","A">>, details |-> Some([type |-> "Digital", direction |-> "I/O"])]

\* C22: a header cell matching "i/o type" gives both the type role and the
\* direction role to its column, so the header PIN#, NAME, I/O TYPE with the
\* row 3, SDA, Digital I/O yields pin 3 SDA with type Digital and direction
\* I/O.
C22_IoTypeHeader ==
    (TableRanClean /\ LastInvoked = "table") =>
        LET hs == Headers(TheTable)
            r == ColumnRoles(TheTable)
        IN  /\ \A i \in DOMAIN hs :
                  ( /\ IsIoTypeHeader(hs[i])
                    /\ \A j \in 1 .. i - 1 :
                          ~IsIoTypeHeader(hs[j]) /\ ~IsTypeHeader(hs[j]) /\ ~IsDirectionHeader(hs[j]) )
                  => (r.type = i /\ r.direction = i)
            /\ TheTable = <<HdrIoType, RowIo>> => PinSda3 \in Range(TablePins)

\* scenario B: the table strategy returned pin 3 SDA for that table
C22_Witness ==
    /\ TableRanClean /\ TheTable = <<HdrIoType, RowIo>> /\ doc.pages[1].text = << >>
    /\ ColumnRoles(TheTable).type = 3 /\ ColumnRoles(TheTable).direction = 3
    /\ TablePins = <<PinSda3>>

ClaimedDirection(row, r) ==
    LET fromDirection ==
            IF r.direction # 0 /\ Len(row) >= r.direction /\ row[r.direction] # << >>
            THEN DirectionFromDirText(Lower(CollapseWs(Strip(row[r.direction]))))
            ELSE None
    IN  IF fromDirection # None THEN fromDirection
        ELSE IF r.type # 0 /\ Len(row) >= r.type /\ row[r.type] # << >>
        THEN DirectionFromDirText(Lower(CollapseWs(Strip(row[r.type]))))
        ELSE None

DirectionOf(pin) ==
    IF pin.details # None /\ "direction" \in DOMAIN pin.details[1]
    THEN Some(pin.details[1].direction)
    ELSE None

\* the rows of the table that become candidates, with the column roles r
CandidateRows(table, r) ==
    IF IsPinTable(table, r)
    THEN {k \in DataStartIdx(table) .. Len(table) : RowAccepted(table[k], r)}
    ELSE {}

\* C24: when the direction cell yields no direction, or there is no
\* direction column, the direction comes from the type cell by the same
\* substring tests as for the direction cell: "i/o", "i / o",
\* "bidirectional", "input/output" or "inout" give I/O, else "output" gives
\* Output, else "input" gives Input.
C24_DirectionFromTypeCell ==
    (TableRanClean /\ LastInvoked = "table") =>
        LET r == ColumnRoles(TheTable)
        IN  \A k \in CandidateRows(TheTable, r) :
                DirectionOf(RowCandidate(TheTable[k], r)[2]) = ClaimedDirection(TheTable[k], r)

RoleNames == {"pin", "name", "type", "direction", "description"}
\* the roles the header loop gives to column i
RolesOfColumn(r, i) == {role \in RoleNames : r[role] = i}

\* C25: column-role inference gives each header cell at most one of the five
\* roles pin-number, name, type, direction and description; the only
\* exception is a combined type and direction header, which fills both the
\* type role and the direction role.
C25_OneRolePerHeader ==
    (TableRanClean /\ LastInvoked = "table") =>
        LET hs == Headers(TheTable)
            r == ClassifyFrom(NoRoles, hs, 1)
        IN  \A i \in DOMAIN hs :
                \/ Cardinality(RolesOfColumn(r, i)) <= 1
                \/ RolesOfColumn(r, i) = {"type", "direction"}

\* the promotion rule as stated: a weak row 0 and a second row that names
\* "name", "type" or "description"
ClaimedPromotion(table) ==
    /\ Row0IsWeak(HeadersRow0(table))
    /\ Len(table) >= 2
    /\ ContainsAny(Join(HeadersRow1(table)), {<<"n","a","m","e">>, <<"t","y","p","e">>, <<"d","e","s","c","r","i","p","t","i","o","n">>})

\* C26: row 1 becomes the header row, and the data starts at row 2, exactly
\* when more than half of the row-0 header cells are empty or none of them
\* contains "name", and a second row exists whose joined text contains
\* "name", "type" or "description"; this holds for every table with a
\* second row, tables of exactly two rows included.
C26_HeaderPromotion ==
    (TableRanClean /\ LastInvoked = "table") =>
        IF ClaimedPromotion(TheTable)
        THEN Headers(TheTable) = HeadersRow1(TheTable) /\ DataStartIdx(TheTable) = 3
        ELSE Headers(TheTable) = HeadersRow0(TheTable) /\ DataStartIdx(TheTable) = 2

TypeOf(pin) ==
    IF pin.details # None /\ "type" \in DOMAIN pin.details[1]
    THEN Some(pin.details[1].type)
    ELSE None

\* the type cell of the row, empty or not, names no type and the next cell
\* holds "supply" or "power"
AdjacentSupply(row, r) ==
    /\ r.type # 0 /\ Len(row) >= r.type + 1
    /\ TypeFromText(Lower(CollapseWs(Strip(row[r.type])))) = None
    /\ ContainsAny(Lower(Strip(row[r.type + 1])), {<<"s","u","p","p","l","y">>, <<"p","o","w","e","r">>})

\* C27: for every row of a table with a type column, if the type cell does
\* not determine a type, whether it is empty or holds unrecognised text, and
\* the next column contains "supply" or "power", the type of the pin is Power.
C27_AdjacentColumnPower ==
    (TableRanClean /\ LastInvoked = "table") =>
        LET r == ColumnRoles(TheTable)
        IN  \A k \in CandidateRows(TheTable, r) :
                AdjacentSupply(TheTable[k], r) =>
                    TypeOf(RowCandidate(TheTable[k], r)[2]) = Some("Power")

-----------------------------------------------------------------------------
(* The diagram and text strategies: pages                                   *)

\* the token-then-number matches of each page on its own, in page order
RECURSIVE PagePairsA(_)
PagePairsA(pages) ==
    IF pages = << >> THEN << >>
    ELSE FindAllA(Head(pages), 1) \o PagePairsA(Tail(pages))

\* the number-then-token matches of each page on its own
RECURSIVE PagePairsB(_)
PagePairsB(pages) ==
    IF pages = << >> THEN << >>
    ELSE FindAllB(Head(pages), 1) \o PagePairsB(Tail(pages))

\* the lines of each page on its own
RECURSIVE PageLines(_)
PageLines(pages) ==
    IF pages = << >> THEN << >>
    ELSE SplitLines(Head(pages)) \o PageLines(Tail(pages))

NamesOfPairs(pairs) ==
    LET cleaned == Cleaned(pairs)
        keys == SortedKeys(DOMAIN cleaned)
    IN  [i \in DOMAIN keys |-> cleaned[keys[i]]]

NamesOfLines(lines) ==
    LET results == StableSortByPin(LineResults(lines))
    IN  [i \in DOMAIN results |-> results[i][2]]

TextRanClean ==
    "text" \in Range(invoked) /\ deps.ocr /\ \A f \in faults : f[1] # "text"

\* C28: in the diagram and text strategies a page contributes what its own
\* recognised text holds: the names the diagram strategy returns are those of
\* the pairs matched inside single pages, and the names the text strategy
\* returns are those of the lines of single pages; no pair and no line is
\* made of text of two pages.
C28_PageLocalPairs ==
    /\ OcrRanClean =>
          NamesOf(ocrOut) = NamesOfPairs(PagePairsA(ocrPages) \o PagePairsB(ocrPages))
    /\ TextRanClean =>
          NamesOf(textOut) = NamesOfLines(PageLines(textPages))

-----------------------------------------------------------------------------
(* The orchestrator: a table result without pins                            *)

\* the table strategy returned a value that holds no pin
TableFoundNoPins == tableOut # None /\ tableOut[1].pins = << >>

\* C29: a table strategy that finds metadata but no pin returns the empty
\* pin list with that metadata; the orchestrator goes on to the diagram
\* strategy, and the metadata is not in the final result: a result of the
\* diagram or text strategy has metadata None, and a run in which every
\* strategy fails has no result.
C29_MetadataOnlyFallsThrough ==
    TableFoundNoPins =>
        /\ tableOut[1].metadata # None
        /\ tableOut[1].metadata = FirstPageMetadata(doc.pages)
        /\ pc = "TryDiagram" \/ "ocr" \in Range(invoked)
        /\ result # None =>
              /\ LastInvoked \in {"ocr", "text"}
              /\ result[1].metadata = None
        /\ pc = "Failed" => result = None

\* the table strategy found only metadata and the diagram strategy then
\* found names
C29_Witness ==
    /\ TableFoundNoPins
    /\ pc = "Done" /\ LastInvoked = "ocr"
    /\ result # None /\ result[1].metadata = None /\ Len(ResultPins) >= 1

-----------------------------------------------------------------------------
(* The table strategy: errors of pdfplumber                                 *)

\* the table strategy ran with pdfplumber installed
TableCalled == "table" \in Range(invoked) /\ deps.pdfplumber

\* the second pass raised on page tableFault.fallback, the first pass did not
FallbackRaised == TableCalled /\ ~tableFault.scan /\ tableFault.fallback # 0

\* the candidates collected when the second pass raises on page k: those of
\* the table rows, then the lines of the pages before k
CollectedBefore(k) ==
    ScanPages(doc.pages) \o TextCandidatesAlone(SubSeq(doc.pages, 1, k - 1))

\* C30: when the scan of the tables raises, the table strategy returns None,
\* whatever candidates and metadata it had collected; when the text-line
\* fallback pass raises, the candidates collected so far (table rows and the
\* lines of the pages before the error) are returned merged, first record of a
\* number winning, in ascending order of number, with the metadata.
C30_ScanAbortsFallbackKeeps ==
    /\ (TableCalled /\ tableFault.scan) => tableOut = None
    /\ FallbackRaised =>
          LET all == CollectedBefore(tableFault.fallback)
              pins == TablePins
          IN  /\ PinNumbers(pins) = {all[i][1] : i \in DOMAIN all}
              /\ \A i \in DOMAIN pins :
                    /\ pins[i] = FirstWith(all, pins[i].number)
                    /\ \A j \in DOMAIN pins : i < j => pins[i].number < pins[j].number
              /\ tableOut # None => tableOut[1].metadata = FirstPageMetadata(doc.pages)
              /\ tableOut = None <=> (all = << >> /\ FirstPageMetadata(doc.pages) = None)

\* the second pass raised on page 2 after a line of page 1 had given a pin
\* that no table row has, and a table row gave another pin
C30_Witness ==
    /\ FallbackRaised /\ tableFault.fallback = 2
    /\ LET scan == ScanPages(doc.pages)
           text == TextCandidatesAlone(SubSeq(doc.pages, 1, 1))
       IN  /\ scan # << >>
           /\ \E l \in DOMAIN text :
                 /\ \A i \in DOMAIN scan : scan[i][1] # text[l][1]
                 /\ text[l][1] \in PinNumbers(TablePins)
           /\ TextCandidatesAlone(doc.pages) # text
=============================================================================
